---- MODULE Spec2Model ----
(***************************************************************************)
(* DateShortcutParser (src/src/index.ts): a shortcut string such as        *)
(* "t+3d.", "05/20 + 2w." or "5:30pm" is resolved against a reference      *)
(* instant into a UTC date and time.                                       *)
(*                                                                         *)
(* Strings are sequences of one-character strings.  A Date is a record     *)
(* [day |-> days since 1970-01-01, tod |-> milliseconds into that day].    *)
(***************************************************************************)
EXTENDS Integers, Sequences, FiniteSets, TLC

VARIABLES
  locale,       \* this.locale: the resolved Localization (a key of Locales)
  fromDate,     \* this.options.fromDate: the reference instant
  defaultTime,  \* this.defaultTime: a TimeInfo or NoTime
  unitTypeMap,  \* this.unitTypeMap: keyword -> unit type
  pc,           \* position of the caller: which call is pending or finished
  shortcut,     \* the string handed to parse / _extractTime / the constructor
  result,       \* what parse / _extractTime returned or threw
  date,         \* the Date object handed to _applySinglePart, mutated in place
  before,       \* the value that object had when it was handed over
  part,         \* the token handed to _applySinglePart
  thrown,       \* what _applySinglePart threw, or NoError
  typed,        \* what the caller typed, field by field, to make up the string
  log,          \* the parse calls made on the parser so far, each with its outcome
  returned,     \* the Date objects those calls handed to the caller
  constructedAt \* the instant options.fromDate held when the constructor ran

vars == <<locale, fromDate, defaultTime, unitTypeMap, pc, shortcut, result, date, before, part, thrown, typed, log, returned, constructedAt>>

-----------------------------------------------------------------------------
(* Bounds of the explored inputs.                                          *)

\* magnitudes 0..MaxAmount are typed in relative tokens
MaxAmount == 24
\* the running dates are the SpanDays consecutive days from 1 January 2025
SpanDays == 120
\* hours 0..MaxHour are typed in time expressions
MaxHour == 26
\* sequences of up to MaxParts relative tokens are typed
MaxParts == 2
\* up to MaxCalls parse calls are made on one parser
MaxCalls == 3
\* default times of up to MaxTimeParts components are passed to the constructor
MaxTimeParts == 4

-----------------------------------------------------------------------------
(* Calendar arithmetic of the ECMAScript Date object (proleptic Gregorian, *)
(* UTC).  \div and % are floor division and non-negative remainder.        *)

Min(a, b) == IF a <= b THEN a ELSE b

\* Day number of the day-of-year doy (counted from 1 March) of the March-based
\* year yy.
DaysFromYearDay(yy, doy) ==
  (yy \div 400) * 146097
    + (yy % 400) * 365 + (yy % 400) \div 4 - (yy % 400) \div 100 + doy - 719468

\* Day number of year-month-day, month in 1..12 (the Day(MakeDay(...)) of
\* ECMAScript for an in-range month).
DaysFromCivil(y, m, d) ==
  DaysFromYearDay(IF m <= 2 THEN y - 1 ELSE y,
                  (153 * (IF m > 2 THEN m - 3 ELSE m + 9) + 2) \div 5 + d - 1)

\* the year of the era that the day-of-era doe lies in
YearOfEra(doe) == (doe - doe \div 1460 + doe \div 36524 - doe \div 146096) \div 365

\* the day-of-year (counted from 1 March) of the day-of-era doe in year yoe
DayOfYear(doe, yoe) == doe - (365 * yoe + yoe \div 4 - yoe \div 100)

\* year, 0-indexed month and day of the day-of-year doy of the March-based
\* year yy, mp being the month counted from March
CivilOfMonth(yy, doy, mp) ==
  [year  |-> yy + (IF mp >= 10 THEN 1 ELSE 0),
   month |-> IF mp < 10 THEN mp + 2 ELSE mp - 10,
   day   |-> doy - (153 * mp + 2) \div 5 + 1]

CivilOfYearDay(yy, doy) == CivilOfMonth(yy, doy, (5 * doy + 2) \div 153)

CivilOfEra(era, doe, yoe) == CivilOfYearDay(yoe + era * 400, DayOfYear(doe, yoe))

\* YearFromTime / MonthFromTime / DateFromTime of ECMAScript in one record;
\* month is 0-indexed as in getUTCMonth.
CivilFromDays(z) ==
  CivilOfEra((z + 719468) \div 146097, (z + 719468) % 146097,
             YearOfEra((z + 719468) % 146097))

\* MakeDay(year, month, date): month is 0-indexed and may lie outside 0..11,
\* date may lie outside the month; both roll over.
MakeDay(year, month, dt) ==
  DaysFromCivil(year + month \div 12, (month % 12) + 1, 1) + dt - 1

getUTCFullYear(dt) == CivilFromDays(dt.day).year
getUTCMonth(dt) == CivilFromDays(dt.day).month
getUTCDate(dt) == CivilFromDays(dt.day).day
\* 0 = Sunday .. 6 = Saturday; 1970-01-01 was a Thursday
getUTCDay(dt) == (dt.day + 4) % 7

\* Date.UTC(year, month, day): a year in 0..99 means 1900 + year.
DateUTC(year, month, dt) ==
  LET yr == IF year >= 0 /\ year <= 99 THEN 1900 + year ELSE year
  IN  [day |-> MakeDay(yr, month, dt), tod |-> 0]

setUTCFullYear(dt, y) ==
  [dt EXCEPT !.day = MakeDay(y, getUTCMonth(dt), getUTCDate(dt))]
setUTCMonth(dt, m) ==
  [dt EXCEPT !.day = MakeDay(getUTCFullYear(dt), m, getUTCDate(dt))]
setUTCDate(dt, d) ==
  [dt EXCEPT !.day = MakeDay(getUTCFullYear(dt), getUTCMonth(dt), d)]
\* setUTCHours(h, m, s, ms) with every component in range
setUTCHours(dt, h, m, s, ms) ==
  [dt EXCEPT !.tod = ((h * 60 + m) * 60 + s) * 1000 + ms]

-----------------------------------------------------------------------------
(* The Localization records.  A keyword is a sequence of characters; the   *)
(* letters outside ASCII are written by name ("e_acute", "i_dotless",      *)
(* "u_uml", "s_cedil").  A DatePattern keeps its regex as the shape        *)
(* ^(\d{g1})sep(\d{g2})(?:sep(\d{g3}))? : the digit-count range of each   *)
(* group, the separator, and whether the third group is optional.          *)

\* the built-in English locale
LocaleEn ==
  [year    |-> <<<<"y">>, <<"y", "r">>, <<"y", "e", "a", "r">>, <<"y", "e", "a", "r", "s">>>>,
   month   |-> <<<<"m">>, <<"m", "o">>, <<"m", "o", "n", "t", "h">>, <<"m", "o", "n", "t", "h", "s">>>>,
   week    |-> <<<<"w">>, <<"w", "k">>, <<"w", "e", "e", "k">>, <<"w", "e", "e", "k", "s">>>>,
   day     |-> <<<<"d">>, <<"d", "a", "y">>, <<"d", "a", "y", "s">>>>,
   today   |-> <<<<"t">>, <<"t", "o", "d", "a", "y">>, <<"n", "o", "w">>>>,
   weekday |-> <<<<"w", "d">>, <<"w", "e", "e", "k", "d", "a", "y">>, <<"w", "e", "e", "k", "d", "a", "y", "s">>>>,
   datePatterns |-> << [g1 |-> <<1, 2>>, sep |-> "/", g2 |-> <<1, 2>>,
                        g3 |-> <<2, 4>>, g3opt |-> TRUE,
                        format |-> <<"m", "m", "/", "d", "d", "/", "y", "y", "y", "y">>] >>,
   am |-> <<<<"a", "m">>>>,
   pm |-> <<<<"p", "m">>>>]

\* the built-in German locale
LocaleDe ==
  [year    |-> <<<<"j">>, <<"j", "a", "h", "r">>, <<"j", "a", "h", "r", "e">>>>,
   month   |-> <<<<"m">>, <<"m", "o", "n", "a", "t">>, <<"m", "o", "n", "a", "t", "e">>>>,
   week    |-> <<<<"w">>, <<"w", "o", "c", "h", "e">>, <<"w", "o", "c", "h", "e", "n">>>>,
   day     |-> <<<<"t">>, <<"t", "a", "g">>, <<"t", "a", "g", "e">>, <<"d">>>>,
   today   |-> <<<<"h">>, <<"h", "e", "u", "t", "e">>, <<"j", "e", "t", "z", "t">>>>,
   weekday |-> <<<<"w", "t">>, <<"w", "e", "r", "k", "t", "a", "g">>, <<"w", "e", "r", "k", "t", "a", "g", "e">>>>,
   datePatterns |-> << [g1 |-> <<1, 2>>, sep |-> ".", g2 |-> <<1, 2>>,
                        g3 |-> <<2, 4>>, g3opt |-> TRUE,
                        format |-> <<"d", "d", ".", "m", "m", ".", "y", "y", "y", "y">>] >>,
   am |-> <<>>,
   pm |-> <<>>]

\* the built-in French locale
LocaleFr ==
  [year    |-> <<<<"a">>, <<"a", "n">>, <<"a", "n", "n", "e_acute", "e">>, <<"a", "n", "n", "e_acute", "e", "s">>>>,
   month   |-> <<<<"m">>, <<"m", "o", "i", "s">>>>,
   week    |-> <<<<"s">>, <<"s", "e", "m">>, <<"s", "e", "m", "a", "i", "n", "e">>, <<"s", "e", "m", "a", "i", "n", "e", "s">>>>,
   day     |-> <<<<"j">>, <<"j", "o", "u", "r">>, <<"j", "o", "u", "r", "s">>>>,
   today   |-> <<<<"a">>, <<"a", "u", "j", "o", "u", "r", "d", "h", "u", "i">>, <<"m", "a", "i", "n", "t", "e", "n", "a", "n", "t">>>>,
   weekday |-> <<<<"j", "o">>, <<"j", "o", "u", "r", "o", "u", "v", "r", "a", "b", "l", "e">>, <<"j", "o", "u", "r", "s", "o", "u", "v", "r", "a", "b", "l", "e", "s">>>>,
   datePatterns |-> << [g1 |-> <<1, 2>>, sep |-> "/", g2 |-> <<1, 2>>,
                        g3 |-> <<2, 4>>, g3opt |-> TRUE,
                        format |-> <<"d", "d", "/", "m", "m", "/", "y", "y", "y", "y">>] >>,
   am |-> <<>>,
   pm |-> <<>>]

\* the built-in Turkish locale
LocaleTr ==
  [year    |-> <<<<"y">>, <<"y", "i_dotless", "l">>>>,
   month   |-> <<<<"a">>, <<"a", "y">>>>,
   week    |-> <<<<"h">>, <<"h", "a", "f", "t", "a">>>>,
   day     |-> <<<<"g">>, <<"g", "u_uml", "n">>>>,
   today   |-> <<<<"b">>, <<"b", "u", "g", "u_uml", "n">>, <<"s_cedil", "i", "m", "d", "i">>>>,
   weekday |-> <<<<"i", "g">>, <<"i", "s_cedil", "g", "u_uml", "n", "u_uml">>, <<"i", "s_cedil", "g", "u_uml", "n", "l", "e", "r", "i">>>>,
   datePatterns |-> << [g1 |-> <<1, 2>>, sep |-> ".", g2 |-> <<1, 2>>,
                        g3 |-> <<2, 4>>, g3opt |-> TRUE,
                        format |-> <<"d", "d", ".", "m", "m", ".", "y", "y", "y", "y">>] >>,
   am |-> <<>>,
   pm |-> <<>>]

\* the README's custom locale (yyyy-mm-dd)
CustomLocale ==
  [year    |-> <<<<"y">>>>,
   month   |-> <<<<"m">>>>,
   week    |-> <<<<"w">>>>,
   day     |-> <<<<"d">>>>,
   today   |-> <<>>,
   weekday |-> <<<<"w", "d">>>>,
   datePatterns |-> << [g1 |-> <<4, 4>>, sep |-> "-", g2 |-> <<2, 2>>,
                        g3 |-> <<2, 2>>, g3opt |-> FALSE,
                        format |-> <<"y", "y", "y", "y", "-", "m", "m", "-", "d", "d">>] >>,
   am |-> <<<<"a", "m">>, <<"a", ".", "m", ".">>>>,
   pm |-> <<<<"p", "m">>, <<"p", ".", "m", ".">>>>]

\* a custom locale whose record lists English keywords with capital letters
CapitalsLocale ==
  [year    |-> <<<<"Y">>, <<"Y", "r">>>>,
   month   |-> <<<<"M">>, <<"M", "O">>>>,
   week    |-> <<<<"W">>, <<"W", "k">>>>,
   day     |-> <<<<"D">>, <<"D", "A", "Y">>>>,
   today   |-> <<<<"T">>, <<"T", "o", "d", "a", "y">>, <<"N", "O", "W">>>>,
   weekday |-> <<<<"W", "D">>>>,
   datePatterns |-> LocaleEn.datePatterns,
   am |-> <<<<"A", "M">>>>,
   pm |-> <<<<"P", "M">>>>]

\* locales, extended by the custom records a caller may pass instead of a tag
Locales ==
  [en |-> LocaleEn, de |-> LocaleDe, fr |-> LocaleFr, tr |-> LocaleTr,
   custom |-> CustomLocale, capitals |-> CapitalsLocale]

-----------------------------------------------------------------------------
(* Characters and strings.                                                 *)

Digits == <<"0", "1", "2", "3", "4", "5", "6", "7", "8", "9">>
LowerLetters == <<"a", "b", "c", "d", "e", "f", "g", "h", "i", "j", "k", "l", "m",
                  "n", "o", "p", "q", "r", "s", "t", "u", "v", "w", "x", "y", "z">>
UpperLetters == <<"A", "B", "C", "D", "E", "F", "G", "H", "I", "J", "K", "L", "M",
                  "N", "O", "P", "Q", "R", "S", "T", "U", "V", "W", "X", "Y", "Z">>

SeqRange(q) == {q[i] : i \in 1..Len(q)}
IndexIn(q, c) == CHOOSE i \in 1..Len(q) : q[i] = c

\* \d
IsDigit(c) == c \in SeqRange(Digits)
DigitVal(c) == IndexIn(Digits, c) - 1
\* [a-z] under the i flag: the ASCII letters of either case and nothing else
IsLetter(c) == c \in SeqRange(LowerLetters) \cup SeqRange(UpperLetters)
\* \s and the characters String.prototype.trim removes
IsSpace(c) == c \in {" ", "\t"}

\* String.prototype.toLowerCase on the characters of the model
LowerChar(c) == IF c \in SeqRange(UpperLetters) THEN LowerLetters[IndexIn(UpperLetters, c)] ELSE c
toLowerCase(str) == [i \in 1..Len(str) |-> LowerChar(str[i])]

\* String.prototype.substring(from) and substring(0, to), 0-indexed as in the code
SubstringFrom(str, from) == SubSeq(str, from + 1, Len(str))
SubstringTo(str, to) == SubSeq(str, 1, to)

RECURSIVE TrimStart(_)
TrimStart(str) ==
  IF str # <<>> /\ IsSpace(Head(str)) THEN TrimStart(Tail(str)) ELSE str
RECURSIVE TrimEnd(_)
TrimEnd(str) ==
  IF str # <<>> /\ IsSpace(str[Len(str)]) THEN TrimEnd(SubSeq(str, 1, Len(str) - 1)) ELSE str
\* String.prototype.trim
Trim(str) == TrimEnd(TrimStart(str))

\* String.prototype.startsWith
StartsWith(str, prefix) ==
  Len(prefix) <= Len(str) /\ SubSeq(str, 1, Len(prefix)) = prefix

\* length of the run of characters from 0-indexed position i on that satisfy
\* the class test (isDigit TRUE: digits, FALSE: whitespace)
RECURSIVE RunLen(_, _, _)
RunLen(str, i, isDigit) ==
  IF i < Len(str) /\ (IF isDigit THEN IsDigit(str[i + 1]) ELSE IsSpace(str[i + 1]))
  THEN 1 + RunLen(str, i + 1, isDigit) ELSE 0

\* parseInt(str, 10) of a string of digits
RECURSIVE ParseInt(_)
ParseInt(str) ==
  IF str = <<>> THEN 0
  ELSE 10 * ParseInt(SubSeq(str, 1, Len(str) - 1)) + DigitVal(str[Len(str)])

\* `${n}` for a non-negative integer: its decimal digits
RECURSIVE NumToStr(_)
NumToStr(n) ==
  IF n < 10 THEN <<Digits[n + 1]>>
  ELSE NumToStr(n \div 10) \o <<Digits[(n % 10) + 1]>>

\* Array.prototype.includes
Includes(arr, x) == \E i \in 1..Len(arr) : arr[i] = x

-----------------------------------------------------------------------------
(* What a call throws.                                                     *)

NoError == [kind |-> "none"]
Error(kind, quoted) == [kind |-> kind, quoted |-> quoted]

NoTime == [kind |-> "null"]
TimeInfo(h, m, s) == [kind |-> "time", hour |-> h, minute |-> m, second |-> s]

-----------------------------------------------------------------------------
(* The unit lookup map built by the constructor.                           *)

\* Object.entries(unitDefinitions): the unit lists in the order the locale
\* record declares them
UnitDefinitions(loc) ==
  << <<"year", loc.year>>, <<"month", loc.month>>, <<"week", loc.week>>,
     <<"day", loc.day>>, <<"today", loc.today>>, <<"weekday", loc.weekday>> >>

\* Map.prototype.set: a later set of the same key replaces the earlier one
MapSet(map, key, val) ==
  [k \in DOMAIN map \cup {key} |-> IF k = key THEN val ELSE map[k]]

RECURSIVE SetKeywords(_, _, _)
SetKeywords(map, unitType, keywords) ==
  IF keywords = <<>> THEN map
  ELSE SetKeywords(MapSet(map, Head(keywords), unitType), unitType, Tail(keywords))

RECURSIVE SetEntries(_, _)
SetEntries(map, entries) ==
  IF entries = <<>> THEN map
  ELSE SetEntries(SetKeywords(map, Head(entries)[1], Head(entries)[2]), Tail(entries))

EmptyMap == [k \in {} |-> "none"]

CreateUnitTypeMap(loc) == SetEntries(EmptyMap, UnitDefinitions(loc))

\* Map.prototype.get; "undefined" when the key is absent
MapGet(map, key) == IF key \in DOMAIN map THEN map[key] ELSE "undefined"

-----------------------------------------------------------------------------
(* _findNthWeekday and _findClosestWorkday.                                *)

\* new Date(Date.UTC(year, month + 1, 0)).getUTCDate()
DaysInMonth(year, month) == getUTCDate(DateUTC(year, month + 1, 0))

\* the for loop of _findNthWeekday from `day` on; NotFound when it runs out
NotFound == [found |-> FALSE]

\* NthWeekdayLoop that stops at the first weekday once the count has reached n
RECURSIVE NthWeekdayLoopAtLeast(_, _, _, _, _, _, _)
NthWeekdayLoopAtLeast(year, month, daysInMonth, day, increment, weekdayCount, n) ==
  IF ~(day >= 1 /\ day <= daysInMonth) THEN NotFound
  ELSE LET tempDate  == DateUTC(year, month, day)
           dayOfWeek == getUTCDay(tempDate)
           isWeekday == dayOfWeek > 0 /\ dayOfWeek < 6
           count     == IF isWeekday THEN weekdayCount + 1 ELSE weekdayCount
       IN  IF isWeekday /\ count >= n
           THEN [found |-> TRUE, date |-> tempDate]
           ELSE NthWeekdayLoopAtLeast(year, month, daysInMonth, day + increment, increment, count, n)

RECURSIVE NthWeekdayLoop(_, _, _, _, _, _, _)
NthWeekdayLoop(year, month, daysInMonth, day, increment, weekdayCount, n) ==
  IF ~(day >= 1 /\ day <= daysInMonth) THEN NotFound
  ELSE LET tempDate  == DateUTC(year, month, day)
           dayOfWeek == getUTCDay(tempDate)
           isWeekday == dayOfWeek > 0 /\ dayOfWeek < 6
           count     == IF isWeekday THEN weekdayCount + 1 ELSE weekdayCount
       IN  IF isWeekday /\ count = n
           THEN [found |-> TRUE, date |-> tempDate]
           ELSE NthWeekdayLoop(year, month, daysInMonth, day + increment, increment, count, n)

\* FindNthWeekday that counts from the first day whatever the direction asked
FindNthWeekdayFromStart(dt, n, fromEnd) ==
  NthWeekdayLoop(getUTCFullYear(dt), getUTCMonth(dt),
                 DaysInMonth(getUTCFullYear(dt), getUTCMonth(dt)), 1, 1, 0, n)

FindNthWeekday(dt, n, fromEnd) ==
  LET year        == getUTCFullYear(dt)
      month       == getUTCMonth(dt)
      daysInMonth == DaysInMonth(year, month)
      startDay    == IF fromEnd THEN daysInMonth ELSE 1
      increment   == IF fromEnd THEN -1 ELSE 1
  IN  NthWeekdayLoop(year, month, daysInMonth, startDay, increment, 0, n)

\* FindClosestWorkday that moves a Saturday forward as well
FindClosestWorkdayForward(dt) ==
  LET dayOfWeek == getUTCDay(dt)
  IN  IF dayOfWeek = 6 THEN setUTCDate(dt, getUTCDate(dt) + 2)
      ELSE IF dayOfWeek = 0 THEN setUTCDate(dt, getUTCDate(dt) + 1)
      ELSE dt

FindClosestWorkday(dt) ==
  LET dayOfWeek == getUTCDay(dt)
  IN  IF dayOfWeek = 6 THEN setUTCDate(dt, getUTCDate(dt) - 1)
      ELSE IF dayOfWeek = 0 THEN setUTCDate(dt, getUTCDate(dt) + 1)
      ELSE dt

-----------------------------------------------------------------------------
(* _applySinglePart: one relative token applied to the running date.       *)

\* case 'year'
ApplyYear(dt, amount) == setUTCFullYear(dt, getUTCFullYear(dt) + amount)

\* ApplyMonth without the clamp: the month is moved with the day left in place
ApplyMonthUnclamped(dt, amount) == setUTCMonth(dt, getUTCMonth(dt) + amount)

\* case 'month'
ApplyMonth(dt, amount) ==
  LET originalDay == getUTCDate(dt)
      first       == setUTCDate(dt, 1)
      moved       == setUTCMonth(first, getUTCMonth(first) + amount)
      daysInTargetMonth == DaysInMonth(getUTCFullYear(moved), getUTCMonth(moved))
  IN  setUTCDate(moved, Min(originalDay, daysInTargetMonth))

\* ApplyWeek with a week of six days
ApplyWeekSixDays(dt, amount) == setUTCDate(dt, getUTCDate(dt) + amount * 6)

\* case 'week'
ApplyWeek(dt, amount) == setUTCDate(dt, getUTCDate(dt) + amount * 7)

\* case 'day'
ApplyDay(dt, amount) == setUTCDate(dt, getUTCDate(dt) + amount)

\* the groups of partRegex, the sign ending at signLen and the digits at
\* digitEnd
PartGroups(prt, signLen, digitEnd) ==
  [matched  |-> /\ digitEnd < Len(prt)
                /\ \A i \in (digitEnd + 1)..Len(prt) : IsLetter(prt[i]),
   sign     |-> SubstringTo(prt, signLen),
   valueStr |-> SubSeq(prt, signLen + 1, digitEnd),
   unitStr  |-> SubstringFrom(prt, digitEnd)]

PartDigits(prt, signLen) == PartGroups(prt, signLen, signLen + RunLen(prt, signLen, TRUE))

\* the match of /^([+-])?(\d*)?([a-z]+)$/i against the token
PartMatch(prt) == PartDigits(prt, IF prt # <<>> /\ prt[1] \in {"+", "-"} THEN 1 ELSE 0)

\* case 'weekday': the date takes the time of the day found, or the call throws
WeekdayResult(dt, value, modifiedDate) ==
  IF modifiedDate.found
    THEN [date |-> [dt EXCEPT !.day = modifiedDate.date.day, !.tod = modifiedDate.date.tod],
          thrown |-> NoError]
    ELSE [date |-> dt, thrown |-> Error("WeekdayNotFound", NumToStr(value))]

\* _applySinglePart from the switch on: the unit type is applied to the date
ApplyUnitType(dt, unitType, value, isNegative) ==
  IF unitType = "year"
    THEN [date |-> ApplyYear(dt, IF isNegative THEN -value ELSE value), thrown |-> NoError]
  ELSE IF unitType = "month"
    THEN [date |-> ApplyMonth(dt, IF isNegative THEN -value ELSE value), thrown |-> NoError]
  ELSE IF unitType = "week"
    THEN [date |-> ApplyWeek(dt, IF isNegative THEN -value ELSE value), thrown |-> NoError]
  ELSE IF unitType = "day"
    THEN [date |-> ApplyDay(dt, IF isNegative THEN -value ELSE value), thrown |-> NoError]
  ELSE WeekdayResult(dt, value, FindNthWeekday(dt, value, isNegative))

\* _applySinglePart from the lookup of the unit on
ApplyUnit(dt, loc, unit, unitType, value, isNegative) ==
  IF unitType = "undefined"
    THEN IF Includes(loc.today, unit)
           THEN [date |-> dt, thrown |-> NoError]
           ELSE [date |-> dt, thrown |-> Error("UnknownUnit", unit)]
  ELSE IF unitType = "today"
    THEN [date |-> dt, thrown |-> NoError]
  ELSE ApplyUnitType(dt, unitType, value, isNegative)

\* _applySinglePart with the outcome m of part.match(partRegex)
ApplyMatch(dt, prt, loc, map, m) ==
  IF ~m.matched
    THEN [date |-> dt, thrown |-> Error("InvalidPartFormat", prt)]
  ELSE ApplyUnit(dt, loc, toLowerCase(m.unitStr), MapGet(map, toLowerCase(m.unitStr)),
                 IF m.valueStr # <<>> THEN ParseInt(m.valueStr) ELSE 1,
                 m.sign = <<"-">>)

\* the returned record holds the date object after the call and what was thrown
ApplySinglePart(dt, prt, loc, map) == ApplyMatch(dt, prt, loc, map, PartMatch(prt))

-----------------------------------------------------------------------------
(* _extractTime: the trailing time expression.                             *)

\* one alternative of the marker group against the text, under the i flag;
\* the marker is regex source, so a "." in it matches any character
MarkerMatches(marker, text) ==
  /\ Len(marker) = Len(text)
  /\ \A j \in 1..Len(marker) :
       marker[j] = "." \/ LowerChar(marker[j]) = LowerChar(text[j])

\* (?::\d{2})? at the 0-indexed position q: a colon and two digits are there
HasColonPair(str, q) ==
  q < Len(str) /\ str[q + 1] = ":" /\ RunLen(str, q + 1, TRUE) >= 2

\* the position after (?::\d{2})? tried at q
AfterColonPair(str, q) == IF HasColonPair(str, q) THEN q + 3 ELSE q

\* (am|pm)? against the text left after \s*: some alternative is the text
MarkerFollows(ampm, tail) ==
  Len(ampm) > 0 /\ tail # <<>> /\ \E k \in 1..Len(ampm) : MarkerMatches(ampm[k], tail)

\* the match whose leading whitespace starts at i, whose digits run from p to
\* q1, whose minute and second end at q2 and q3, with `tail` left after \s*
TimeMatchOf(str, i, p, q1, q2, q3, ampm, tail) ==
  [matched |-> /\ (p > i \/ i = 0)
               /\ q1 - p \in {1, 2}
               /\ (tail = <<>> \/ MarkerFollows(ampm, tail)),
   index   |-> i,
   hourStr |-> SubSeq(str, p + 1, q1),
   minStr  |-> SubSeq(str, q1 + 2, q2),
   secStr  |-> SubSeq(str, q2 + 2, q3),
   ampmStr |-> IF MarkerFollows(ampm, tail) THEN tail ELSE <<>>]

TimeMatchSeconds(str, i, p, q1, q2, q3, ampm) ==
  TimeMatchOf(str, i, p, q1, q2, q3, ampm, SubstringFrom(str, q3 + RunLen(str, q3, FALSE)))

TimeMatchMinutes(str, i, p, q1, q2, ampm) ==
  TimeMatchSeconds(str, i, p, q1, q2, AfterColonPair(str, q2), ampm)

TimeMatchHour(str, i, p, q1, ampm) ==
  TimeMatchMinutes(str, i, p, q1, AfterColonPair(str, q1), ampm)

TimeMatchDigits(str, i, p, ampm) ==
  TimeMatchHour(str, i, p, p + RunLen(str, p, TRUE), ampm)

\* timeRegex tried at the 0-indexed position i:
\*   (?:\s+|^)(\d{1,2}(?::\d{2})?(?::\d{2})?)\s*(am|pm)?$
\* No marker of the locales starts with a digit, "." or whitespace, so the
\* greedy choice of every quantifier is the only one that can reach the end.
TimeMatchAt(str, i, ampm) == TimeMatchDigits(str, i, i + RunLen(str, i, FALSE), ampm)

NoMatch == [matched |-> FALSE]

\* String.prototype.match: the match at the leftmost position that has one
RECURSIVE TimeMatchFrom(_, _, _)
MatchOrNext(match, str, i, ampm) ==
  IF match.matched THEN match ELSE TimeMatchFrom(str, i + 1, ampm)

TimeMatchFrom(str, i, ampm) ==
  IF i >= Len(str) THEN NoMatch
  ELSE MatchOrNext(TimeMatchAt(str, i, ampm), str, i, ampm)

\* minute < 0 || minute > 59 || second < 0 || second > 59
MinuteSecondInvalid(minute, second) ==
  minute < 0 \/ minute > 59 \/ second < 0 \/ second > 59

\* hour < 1 || hour > 12, asked when a marker was typed
AmPmHourInvalid(hour) == hour < 1 \/ hour > 12

\* HourInvalid with the upper limit one too high
HourInvalidUpTo24(hour) == hour < 0 \/ hour > 24

\* hour < 0 || hour > 23
HourInvalid(hour) == hour < 0 \/ hour > 23

\* ConvertAmPm that leaves 12 with an AM marker at 12
ConvertAmPmNoMidnight(hour, isPm) ==
  IF isPm /\ hour < 12 THEN hour + 12 ELSE hour

\* the hour after the AM/PM conversion
ConvertAmPm(hour, isPm) ==
  IF isPm /\ hour < 12 THEN hour + 12
  ELSE IF ~isPm /\ hour = 12 THEN 0
  ELSE hour

\* the checks on the parsed components, the conversion and what is returned;
\* hour0 is timeComponents[0], index is match.index
TimeOfComponents(str, loc, index, ampmPart, hour0, minute, second) ==
  IF MinuteSecondInvalid(minute, second)
    THEN [thrown |-> Error("InvalidTimeFormat", str)]
  ELSE IF ampmPart # <<>> /\ AmPmHourInvalid(hour0)
    THEN [thrown |-> Error("InvalidAmPmHour", NumToStr(hour0))]
  ELSE IF HourInvalid(IF ampmPart # <<>> THEN ConvertAmPm(hour0, Includes(loc.pm, ampmPart))
                      ELSE hour0)
    THEN [thrown |-> Error("InvalidHour", NumToStr(hour0))]
  ELSE [thrown |-> NoError,
        timeInfo |-> TimeInfo(IF ampmPart # <<>> THEN ConvertAmPm(hour0, Includes(loc.pm, ampmPart))
                              ELSE hour0,
                              minute, second),
        dateShortcut |-> Trim(SubstringTo(str, index))]

\* what _extractTime does with the outcome of shortcut.match(timeRegex)
TimeOfMatch(str, loc, match) ==
  IF ~match.matched
    THEN [thrown |-> NoError, timeInfo |-> NoTime, dateShortcut |-> str]
  ELSE TimeOfComponents(str, loc, match.index, toLowerCase(match.ampmStr),
                        ParseInt(match.hourStr), ParseInt(match.minStr), ParseInt(match.secStr))

\* returns [thrown, timeInfo, dateShortcut]
ExtractTime(str, loc) == TimeOfMatch(str, loc, TimeMatchFrom(str, 0, loc.am \o loc.pm))

-----------------------------------------------------------------------------
(* _tryParseAbsoluteDate.                                                  *)

\* the groups of pattern.regex: the first ends at run1, the second at e2 and
\* the third, when it is there, is len3 digits long
PatternGroups(str, pat, run1, e2, run3) ==
  [matched |-> /\ run1 >= pat.g1[1] /\ run1 <= pat.g1[2]
               /\ run1 < Len(str) /\ str[run1 + 1] = pat.sep
               /\ e2 - (run1 + 1) >= pat.g2[1] /\ e2 - (run1 + 1) <= pat.g2[2]
               /\ (pat.g3opt \/ run3 >= pat.g3[1]),
   p1      |-> SubSeq(str, 1, run1),
   p2      |-> SubSeq(str, run1 + 2, e2),
   p3      |-> IF run3 >= pat.g3[1]
               THEN SubSeq(str, e2 + 2, e2 + 1 + Min(run3, pat.g3[2])) ELSE <<>>,
   length  |-> IF run3 >= pat.g3[1] THEN e2 + 1 + Min(run3, pat.g3[2]) ELSE e2]

\* the digits after the second separator, if the separator is at e2
PatternThird(str, pat, run1, e2) ==
  PatternGroups(str, pat, run1, e2,
                IF e2 < Len(str) /\ str[e2 + 1] = pat.sep THEN RunLen(str, e2 + 1, TRUE) ELSE 0)

PatternSecond(str, pat, run1, run2) ==
  PatternThird(str, pat, run1,
               run1 + 1 + (IF pat.g3opt THEN Min(run2, pat.g2[2]) ELSE run2))

PatternFirst(str, pat, run1) == PatternSecond(str, pat, run1, RunLen(str, run1 + 1, TRUE))

\* pattern.regex against the start of the string.  A group that is followed
\* by the separator takes the whole digit run; the last group takes as many
\* digits as its range allows.
PatternMatch(str, pat) == PatternFirst(str, pat, RunLen(str, 0, TRUE))

\* AbsoluteDate that reads the first group as the month whatever the format
AbsoluteDateMonthFirst(match, pat, from) ==
  LET year0 == IF match.p3 # <<>> THEN ParseInt(match.p3) ELSE getUTCFullYear(from)
      year  == IF match.p3 # <<>> /\ Len(match.p3) <= 2 THEN year0 + 2000 ELSE year0
  IN  DateUTC(year, ParseInt(match.p1) - 1, ParseInt(match.p2))

\* the year of the date: p3, read as 2000 + p3 when it has at most two
\* digits, or the year of fromDate
AbsoluteYear(p3, from) ==
  IF p3 = <<>> THEN getUTCFullYear(from)
  ELSE IF Len(p3) <= 2 THEN ParseInt(p3) + 2000
  ELSE ParseInt(p3)

\* the date built from a match of the pattern
AbsoluteDate(match, pat, from) ==
  IF StartsWith(toLowerCase(pat.format), <<"d", "d">>)
  THEN DateUTC(AbsoluteYear(match.p3, from), ParseInt(match.p2) - 1, ParseInt(match.p1))
  ELSE DateUTC(AbsoluteYear(match.p3, from), ParseInt(match.p1) - 1, ParseInt(match.p2))

\* the loop over the patterns from the k-th on; [matched |-> FALSE] is null
RECURSIVE TryPatterns(_, _, _, _)
PatternResult(match, str, patterns, k, from) ==
  IF match.matched
  THEN [matched   |-> TRUE,
        date      |-> AbsoluteDate(match, patterns[k], from),
        remaining |-> Trim(SubstringFrom(str, match.length))]
  ELSE TryPatterns(str, patterns, k + 1, from)

TryPatterns(str, patterns, k, from) ==
  IF k > Len(patterns) THEN NoMatch
  ELSE PatternResult(PatternMatch(str, patterns[k]), str, patterns, k, from)

TryParseAbsoluteDate(str, loc, from) == TryPatterns(str, loc.datePatterns, 1, from)

-----------------------------------------------------------------------------
(* _applyRelativeParts.                                                    *)

\* the string with no space put before its signs
SignsLeft(str) == str

\* replace(/([+-])/g, ' $1')
RECURSIVE SpaceBeforeSigns(_)
SpaceBeforeSigns(str) ==
  IF str = <<>> THEN <<>>
  ELSE IF Head(str) \in {"+", "-"} THEN <<" ", Head(str)>> \o SpaceBeforeSigns(Tail(str))
  ELSE <<Head(str)>> \o SpaceBeforeSigns(Tail(str))

\* split(/\s+/).filter(Boolean); cur is the token being read
RECURSIVE SplitSpaces(_, _)
SplitSpaces(str, cur) ==
  IF str = <<>> THEN (IF cur = <<>> THEN <<>> ELSE <<cur>>)
  ELSE IF IsSpace(Head(str))
    THEN (IF cur = <<>> THEN <<>> ELSE <<cur>>) \o SplitSpaces(Tail(str), <<>>)
  ELSE SplitSpaces(Tail(str), Append(cur, Head(str)))

\* the raw parts from index i on as they are, no sign joined to its token
RawPartsKept(rawParts, i) == SubSeq(rawParts, i, Len(rawParts))

\* the loop that joins a lone sign with the token after it, from index i on
RECURSIVE JoinSigns(_, _)
JoinSigns(rawParts, i) ==
  IF i > Len(rawParts) THEN <<>>
  ELSE IF rawParts[i] \in {<<"+">>, <<"-">>} /\ i + 1 <= Len(rawParts)
    THEN <<rawParts[i] \o rawParts[i + 1]>> \o JoinSigns(rawParts, i + 2)
  ELSE <<rawParts[i]>> \o JoinSigns(rawParts, i + 1)

Tokenize(str) == JoinSigns(SplitSpaces(Trim(SpaceBeforeSigns(str)), <<>>), 1)

\* ApplyParts that takes the parts from the last to the first
RECURSIVE ApplyPartsBackwards(_, _, _, _)
ApplyPartsBackwards(dt, parts, loc, map) ==
  IF parts = <<>> THEN [date |-> dt, thrown |-> NoError]
  ELSE LET r == ApplySinglePart(dt, parts[Len(parts)], loc, map)
       IN  IF r.thrown # NoError THEN r
           ELSE ApplyPartsBackwards(r.date, SubSeq(parts, 1, Len(parts) - 1), loc, map)

\* for (const part of parts) this._applySinglePart(date, part): stops at the
\* first part that throws; r is what the call on the part before did
RECURSIVE ApplyParts(_, _, _, _)
\* ApplyNextParts that goes on after a part that threw and reports what was
\* thrown last
ApplyNextPartsLastError(r, parts, loc, map) ==
  IF r.thrown = NoError THEN ApplyParts(r.date, parts, loc, map)
  ELSE IF ApplyParts(r.date, parts, loc, map).thrown # NoError
    THEN ApplyParts(r.date, parts, loc, map)
  ELSE r

ApplyNextParts(r, parts, loc, map) ==
  IF r.thrown # NoError THEN r ELSE ApplyParts(r.date, parts, loc, map)

ApplyParts(dt, parts, loc, map) ==
  IF parts = <<>> THEN [date |-> dt, thrown |-> NoError]
  ELSE ApplyNextParts(ApplySinglePart(dt, Head(parts), loc, map), Tail(parts), loc, map)

\* _applyRelativeParts with shortcut.trim() taken
ApplyTrimmedParts(dt, trimmedShortcut, loc, map) ==
  IF trimmedShortcut = <<>> THEN [date |-> dt, thrown |-> NoError]
  ELSE ApplyParts(dt, Tokenize(trimmedShortcut), loc, map)

ApplyRelativeParts(dt, str, loc, map) == ApplyTrimmedParts(dt, Trim(str), loc, map)

-----------------------------------------------------------------------------
(* _parseDate, _applyTime and parse.                                       *)

\* the today keywords tried in the order the locale lists them
(* SortByLengthDesc without the sort *)
ListedOrder(words, sorted) == words

\* [...words].sort((a, b) => b.length - a.length): longest first, words of
\* equal length in their listed order (the sort is stable)
RECURSIVE InsertByLength(_, _)
InsertByLength(sorted, w) ==
  IF sorted = <<>> THEN <<w>>
  ELSE IF Len(Head(sorted)) >= Len(w) THEN <<Head(sorted)>> \o InsertByLength(Tail(sorted), w)
  ELSE <<w>> \o sorted

RECURSIVE SortByLengthDesc(_, _)
SortByLengthDesc(words, sorted) ==
  IF words = <<>> THEN sorted
  ELSE SortByLengthDesc(Tail(words), InsertByLength(sorted, Head(words)))

\* the loop over sortedTodayWords from the k-th on: the remainder after the
\* first keyword that starts it was cut off
RECURSIVE ConsumeToday(_, _, _)
ConsumeToday(remaining, words, k) ==
  IF k > Len(words) THEN remaining
  ELSE IF StartsWith(toLowerCase(remaining), words[k])
    THEN Trim(SubstringFrom(remaining, Len(words[k])))
  ELSE ConsumeToday(remaining, words, k + 1)

\* the date as _applyRelativeParts left it, whatever the marker
NeverAdjusted(applied, workdayAdjust) == applied

\* _parseDate from the call of _applyRelativeParts on
AdjustedDate(applied, workdayAdjust) ==
  IF applied.thrown # NoError THEN applied
  ELSE IF workdayAdjust THEN [date |-> FindClosestWorkday(applied.date), thrown |-> NoError]
  ELSE applied

\* _parseDate from the test of the '.' suffix on; trimmed is remaining.trim()
ParseRemaining(currentDate, remaining, trimmed, loc, map) ==
  IF trimmed # <<>> /\ trimmed[Len(trimmed)] = "."
  THEN AdjustedDate(ApplyRelativeParts(currentDate, SubSeq(trimmed, 1, Len(trimmed) - 1), loc, map),
                    TRUE)
  ELSE AdjustedDate(ApplyRelativeParts(currentDate, remaining, loc, map), FALSE)

\* _parseDate with the outcome of _tryParseAbsoluteDate
ParseAfterAbsolute(midnight, remaining, absolute, loc, map) ==
  IF absolute.matched
  THEN ParseRemaining(absolute.date, absolute.remaining, Trim(absolute.remaining), loc, map)
  ELSE ParseRemaining(midnight, remaining, Trim(remaining), loc, map)

\* _parseDate after the today keyword was consumed
ParseAfterToday(remaining, loc, map, from) ==
  ParseAfterAbsolute(setUTCHours(from, 0, 0, 0, 0), remaining,
                     TryParseAbsoluteDate(remaining, loc, from), loc, map)

\* returns [date, thrown]
ParseDate(dateShortcut, loc, map, from) ==
  IF dateShortcut = <<>> THEN [date |-> from, thrown |-> NoError]
  ELSE ParseAfterToday(ConsumeToday(dateShortcut, SortByLengthDesc(loc.today, <<>>), 1),
                       loc, map, from)

\* TimeToApply with the operands swapped: this.defaultTime || timeInfo
TimeToApplyDefaultFirst(timeInfo, default) == IF default # NoTime THEN default ELSE timeInfo

\* the time that _applyTime writes: timeInfo || this.defaultTime
TimeToApply(timeInfo, default) == IF timeInfo # NoTime THEN timeInfo ELSE default

\* ApplyTime that leaves the milliseconds of the date in place
ApplyTimeKeepMillis(dt, timeInfo, default) ==
  LET timeToApply == TimeToApply(timeInfo, default)
  IN  IF timeToApply # NoTime
      THEN setUTCHours(dt, timeToApply.hour, timeToApply.minute, timeToApply.second, dt.tod % 1000)
      ELSE dt

ApplyTime(dt, timeInfo, default) ==
  LET timeToApply == TimeToApply(timeInfo, default)
  IN  IF timeToApply # NoTime
      THEN setUTCHours(dt, timeToApply.hour, timeToApply.minute, timeToApply.second, 0)
      ELSE dt

Returned(dt) == [kind |-> "date", value |-> dt]
Threw(err) == [kind |-> "throw", error |-> err]

\* parse from the call of _applyTime on
TimedResult(dt, timeInfo, default) ==
  IF dt.thrown # NoError THEN Threw(dt.thrown)
  ELSE Returned(ApplyTime(dt.date, timeInfo, default))

\* parse from the call of _parseDate on
DatedResult(time, loc, map, from, default) ==
  IF time.thrown # NoError THEN Threw(time.thrown)
  ELSE TimedResult(ParseDate(time.dateShortcut, loc, map, from), time.timeInfo, default)

\* parse from the call of _extractTime on, whatever the trimmed shortcut is
ParseUnchecked(trimmedShortcut, loc, map, from, default) ==
  DatedResult(ExtractTime(trimmedShortcut, loc), loc, map, from, default)

\* parse with shortcut.trim() taken
ParseTrimmed(trimmedShortcut, loc, map, from, default) ==
  IF trimmedShortcut = <<>> THEN Threw(Error("EmptyShortcut", <<>>))
  ELSE DatedResult(ExtractTime(trimmedShortcut, loc), loc, map, from, default)

\* parse(shortcut) on a parser with the given fields
Parse(str, loc, map, from, default) == ParseTrimmed(Trim(str), loc, map, from, default)

-----------------------------------------------------------------------------
(* _parseTimeToken: the defaultTime option read by the constructor.        *)

\* split(':')
RECURSIVE SplitColon(_, _)
SplitColon(str, cur) ==
  IF str = <<>> THEN <<cur>>
  ELSE IF Head(str) = ":" THEN <<cur>> \o SplitColon(Tail(str), <<>>)
  ELSE SplitColon(Tail(str), Append(cur, Head(str)))

\* Number(str) for the strings of the model: blank is 0, digits after an
\* optional sign are their value, anything else is NaN
Unsigned(str) == IF str # <<>> /\ Head(str) \in {"+", "-"} THEN Tail(str) ELSE str
IsNaN(str) ==
  \/ \E i \in 1..Len(Unsigned(Trim(str))) : ~IsDigit(Unsigned(Trim(str))[i])
  \/ Trim(str) # <<>> /\ Unsigned(Trim(str)) = <<>>
Number(str) ==
  IF Trim(str) # <<>> /\ Head(Trim(str)) = "-" THEN 0 - ParseInt(Unsigned(Trim(str)))
  ELSE ParseInt(Unsigned(Trim(str)))

\* returns [thrown, time]
ParseTimeToken(timeString) ==
  LET strs   == SplitColon(timeString, <<>>)
      parts  == [i \in 1..Len(strs) |-> IF IsNaN(strs[i]) THEN 0 ELSE Number(strs[i])]
      hour   == IF Len(parts) >= 1 THEN parts[1] ELSE 0
      minute == IF Len(parts) >= 2 THEN parts[2] ELSE 0
      second == IF Len(parts) >= 3 THEN parts[3] ELSE 0
  IN  IF (\E i \in 1..Len(strs) : IsNaN(strs[i])) \/ Len(parts) < 1 \/ Len(parts) > 3
        THEN [thrown |-> Error("InvalidDefaultTimeFormat", timeString)]
      ELSE IF hour < 0 \/ hour > 23 \/ minute < 0 \/ minute > 59 \/ second < 0 \/ second > 59
        THEN [thrown |-> Error("InvalidDefaultTimeValue", timeString)]
      ELSE [thrown |-> NoError, time |-> TimeInfo(hour, minute, second)]

\* the constructor's defaultTime field for the option string
ConstructDefaultTime(option) ==
  IF option # <<>> THEN ParseTimeToken(option).time ELSE NoTime

-----------------------------------------------------------------------------
(* The inputs: parser configurations and shortcut strings.  A shortcut is  *)
(* typed from fields (a today keyword, an absolute date, relative tokens,  *)
(* the workday dot, a time); `typed` keeps the fields, `shortcut` the text.*)

DateAt(y, m, d, tod) == [day |-> DaysFromCivil(y, m, d), tod |-> tod]

\* the fromDate option: the reference instants of the test suite and some
\* month ends, each with a time of day (in milliseconds) that is not midnight
FromDates ==
  { DateAt(2024, 5, 15, 36000000),    \* 2024-05-15T10:00:00.000Z, a Wednesday
    DateAt(2024, 1, 31, 36000000),    \* 2024-01-31T10:00:00.000Z
    DateAt(2025, 1, 31, 86399999),    \* 2025-01-31T23:59:59.999Z
    DateAt(2025, 1, 30, 45296789),    \* 2025-01-30T12:34:56.789Z
    DateAt(2024, 5, 17, 1) }          \* 2024-05-17T00:00:00.001Z, a Friday

\* the defaultTime option: absent, or "09:30:15"
DefaultTimeOptions ==
  { <<>>, <<"0", "9", ":", "3", "0", ":", "1", "5">> }

LocaleIds == {"en", "de", "fr", "tr", "custom"}

\* two texts with one space between them, or the one that is not empty
Join(a, b) == IF a = <<>> THEN b ELSE IF b = <<>> THEN a ELSE a \o <<" ">> \o b

\* A relative token as typed: sign, magnitude (digits, possibly none) and the
\* first keyword the locale lists for the unit type.
Token(sign, digits, type) == [sign |-> sign, digits |-> digits, type |-> type]
TokenText(loc, tok) == tok.sign \o tok.digits \o loc[tok.type][1]

RECURSIVE TokensText(_, _)
TokensText(loc, toks) ==
  IF toks = <<>> THEN <<>>
  ELSE Join(TokenText(loc, Head(toks)), TokensText(loc, Tail(toks)))

\* the tokens that sequences are built from, and the sequences of up to
\* MaxParts of them
SeqTokens == { Token(<<>>, <<"1">>, "month"), Token(<<>>, <<"1">>, "day") }

RECURSIVE SeqsUpTo(_, _)
SeqsUpTo(S, n) ==
  IF n = 0 THEN {<<>>}
  ELSE LET shorter == SeqsUpTo(S, n - 1)
       IN  shorter \cup {Append(q, x) : q \in shorter, x \in S}

TokenSeqs == SeqsUpTo(SeqTokens, MaxParts) \cup
  { <<Token(<<"-">>, <<"3">>, "day")>>,
    <<Token(<<>>, <<"1">>, "month"), Token(<<"-">>, <<"3">>, "day")>>,
    <<Token(<<>>, <<"1">>, "year"), Token(<<>>, <<"2">>, "month"), Token(<<"-">>, <<"3">>, "day")>>,
    <<Token(<<>>, <<"1">>, "year"), Token(<<>>, <<"2">>, "week"), Token(<<"-">>, <<"3">>, "day")>> }

\* the tokens typed after an absolute date
AbsTails ==
  { <<>>,
    <<Token(<<"+">>, <<"2">>, "week")>>,
    <<Token(<<"-">>, <<"1">>, "month")>>,
    <<Token(<<"+">>, <<"1">>, "day"), Token(<<>>, <<"1">>, "month")>> }

\* Time expressions as typed, with the time of day they denote.  The ones
\* with a marker are typed only where the locale has markers.
TimeText(text, h, m, s, marked) ==
  [text |-> text, hour |-> h, minute |-> m, second |-> s, marked |-> marked]
NoTimeText == [text |-> <<>>]
TimeTexts ==
  { TimeText(<<"1", "7", ":", "3", "0">>, 17, 30, 0, FALSE),
    TimeText(<<"9", ":", "0", "5", ":", "0", "7">>, 9, 5, 7, FALSE),
    TimeText(<<"0">>, 0, 0, 0, FALSE),
    TimeText(<<"5", ":", "3", "0", "p", "m">>, 17, 30, 0, TRUE),
    TimeText(<<"1", "2", " ", "A", "M">>, 0, 0, 0, TRUE) }
LocaleTimeTexts(loc) == {t \in TimeTexts : ~t.marked \/ Len(loc.am \o loc.pm) > 0}

\* An absolute date as typed: the day, month and year fields (the year
\* possibly not typed) in the order and with the separator the locale's
\* format names.
TypedDate(day, month, year) == [day |-> day, month |-> month, year |-> year]
AbsText(loc, td) ==
  LET pat    == loc.datePatterns[1]
      sep    == <<pat.sep>>
      format == pat.format
      year   == IF td.year = <<>> THEN <<>> ELSE sep \o td.year
  IN  IF format[1] = "d" THEN td.day \o sep \o td.month \o year
      ELSE IF format[1] = "m" THEN td.month \o sep \o td.day \o year
      ELSE td.year \o sep \o td.month \o sep \o td.day

TypedDates ==
  { TypedDate(<<"2", "0">>, <<"0", "5">>, <<>>),                      \* 20 May
    TypedDate(<<"2", "0">>, <<"5">>, <<"2", "5">>),                   \* 20 May 25
    TypedDate(<<"2", "3">>, <<"0", "3">>, <<"2", "0", "2", "5">>),    \* 23 March 2025
    TypedDate(<<"1">>, <<"1">>, <<>>),                                \* 1 January
    TypedDate(<<"3", "1">>, <<"1", "2">>, <<"1", "9", "9", "9">>),    \* 31 December 1999
    TypedDate(<<"2", "9">>, <<"2">>, <<"2", "4">>),                   \* 29 February 24
    TypedDate(<<"2", "5">>, <<"1", "2">>, <<"2", "0", "2", "5">>),    \* 25 December 2025
    TypedDate(<<"0", "1">>, <<"0", "3">>, <<"0", "0">>),              \* 1 March 00
    TypedDate(<<"3", "0">>, <<"0", "2">>, <<>>),                      \* 30 February
    TypedDate(<<"4", "5">>, <<"1", "3">>, <<>>),                      \* day 45 of month 13
    TypedDate(<<"4", "5">>, <<"1", "3">>, <<"2", "0", "2", "5">>),    \* the same of 2025
    TypedDate(<<"0">>, <<"5">>, <<>>),                                \* day 0 of May
    TypedDate(<<"1", "5">>, <<"0">>, <<"2", "5">>) }                  \* 15th of month 0 of 25

\* what is typed before a date: nothing, or a today keyword of the locale
TodayHeads(loc) == {<<>>} \cup SeqRange(loc.today)
FirstTodayHeads(loc) == {<<>>} \cup {loc.today[i] : i \in 1..Min(1, Len(loc.today))}

Dots == { <<>>, <<".">> }

\* shortcuts of the test suite and the README that the fields do not make up
OtherTexts ==
  { <<>>,
    <<" ", " ", " ">>,
    <<"\t", " ">>,
    <<".">>,
    <<"t", "+", "3", "d", ".">>,
    <<" ", "2", "m", " ", " ", "-", "1", "d", " ">>,
    <<"1", "y", " ", "+">>,
    <<"d", "1">>,
    <<"+", "+", "1", "d">>,
    <<"g", "a", "r", "b", "a", "g", "e">>,
    <<"2", "5", ":", "0", "0">>,
    <<"1", "0", ":", "6", "1">>,
    <<"1", "3", "p", "m">>,
    <<"0", "a", "m">>,
    <<"2", "1", "w", "d">>,
    <<"-", "2", "1", "w", "d">>,
    <<"t", "o", "d", "a", "y", " ", "+", " ", "1", "d">>,
    <<"0", "5", "/", "2", "0", " ", "+", " ", "2", "w", ".">>,
    <<"+", " ", "1", "d">>,
    <<"+", "1", "d", " ", "t">>,
    <<"+", "t">>,
    <<"t", " ", "t", " ", "t", " ", "t", " ", "t">>,
    <<"2", "3", ".", "0", "3", " ", "+", " ", "2", "w", "o", "c", "h", "e", ".">> }

\* A single token typed with any keyword the locale lists: the k-th keyword
\* of a unit type, after an optional sign and an optional magnitude
KeywordSigns == { <<>>, <<"+">>, <<"-">> }
KeywordMagnitudes == { <<>>, <<"1">>, <<"2">> }
KeywordTypes == { "year", "month", "week", "day", "today", "weekday" }
KeywordIndices(loc, u) == 1..Len(loc[u])
KeywordOf(loc, ty) == loc[ty.type][ty.index]

\* A today keyword typed among relative tokens: the token sequences it is
\* inserted into, and the text with the k-th today keyword, after an optional
\* sign and an optional magnitude, inserted behind the first `at` tokens
InsertBases ==
  { <<Token(<<>>, <<"1">>, "day")>>,
    <<Token(<<"+">>, <<"1">>, "month"), Token(<<"-">>, <<"3">>, "day")>> }
InsertedText(loc, ty) ==
  Join(Join(TokensText(loc, SubSeq(ty.toks, 1, ty.at)),
            ty.sign \o ty.digits \o loc.today[ty.index]),
       TokensText(loc, SubSeq(ty.toks, ty.at + 1, Len(ty.toks))))

\* Tokens that are not a sign, digits and letters in that order, and the
\* lone signs
MalformedTokens ==
  { <<"d", "1">>, <<"+", "+", "1", "d">>, <<"1", "d", "1">>, <<"+", "1">>, <<"1", "2">>,
    <<"1", "d", "!">>, <<"-", "#">> }
LoneSigns == { <<"+">>, <<"-">> }
IsNumeral(str) == \A i \in 1..Len(str) : IsDigit(str[i])

\* where a malformed token is typed: behind the tokens `toks` and, unless it
\* is a lone sign, before the tokens `rest`; a numeral is not typed last
MalformedPlaces ==
  { [toks |-> toks, bad |-> bad, rest |-> rest] :
      toks \in { <<>>, <<Token(<<>>, <<"1">>, "day")>> },
      bad \in MalformedTokens \cup LoneSigns,
      rest \in { <<>>, <<Token(<<>>, <<"2">>, "month")>> } }
MalformedText(loc, ty) ==
  Join(ty.head, Join(Join(TokensText(loc, ty.place.toks), ty.place.bad),
                     TokensText(loc, ty.place.rest)))

\* Tokens typed with irregular whitespace: `pad` before and after the
\* shortcut, `gap` between a token and what is before it (one space where
\* an empty gap would run two tokens together), `signGap` between a sign and
\* the rest of its token
SpacedBases ==
  { <<Token(<<>>, <<"2">>, "month"), Token(<<"-">>, <<"1">>, "day")>>,
    <<Token(<<"+">>, <<"1">>, "day")>>,
    <<Token(<<>>, <<"1">>, "year"), Token(<<"+">>, <<"2">>, "week"), Token(<<"-">>, <<"3">>, "day")>> }
Pads == { <<>>, <<" ", " ">> }
Gaps == { <<>>, <<" ">>, <<" ", " ", " ">> }
SignGaps == { <<>>, <<" ">> }
SpacedToken(loc, tok, signGap) ==
  tok.sign \o (IF tok.sign # <<>> THEN signGap ELSE <<>>) \o tok.digits \o loc[tok.type][1]
GapBefore(tok, gap, first) ==
  IF first THEN <<>> ELSE IF gap = <<>> /\ tok.sign = <<>> THEN <<" ">> ELSE gap
RECURSIVE SpacedTokens(_, _, _, _, _)
SpacedTokens(loc, toks, gap, signGap, first) ==
  IF toks = <<>> THEN <<>>
  ELSE GapBefore(Head(toks), gap, first) \o SpacedToken(loc, Head(toks), signGap)
         \o SpacedTokens(loc, Tail(toks), gap, signGap, FALSE)
SpacedText(loc, ty) ==
  ty.pad \o ty.head \o SpacedTokens(loc, ty.toks, ty.gap, ty.signGap, ty.head = <<>>)
    \o ty.dot \o (IF ty.time = NoTimeText THEN <<>> ELSE ty.gap \o <<" ">> \o ty.time.text)
    \o ty.pad

\* Shortcuts that fail: a today keyword or none, up to two parts that are a
\* token of the locale or a text that _applySinglePart throws on, and no
\* time, a time or a time that _extractTime throws on.  Each part and time is
\* typed with what is thrown on it.
GoodPart(tok) == [bad |-> FALSE, tok |-> tok, error |-> NoError]
BadPart(text, error) == [bad |-> TRUE, text |-> text, error |-> error]
OneDay == GoodPart(Token(<<>>, <<"1">>, "day"))
LetterFirst == BadPart(<<"d", "1">>, Error("InvalidPartFormat", <<"d", "1">>))
UnknownWord == BadPart(<<"g", "a", "r", "b", "a", "g", "e">>,
                       Error("UnknownUnit", <<"g", "a", "r", "b", "a", "g", "e">>))
TwoSigns == BadPart(<<"+", "+", "1", "d">>, Error("InvalidPartFormat", <<"+", "+", "1", "d">>))
FailingParts == { OneDay, LetterFirst, UnknownWord, TwoSigns }
FailingSeqs ==
  SeqsUpTo(FailingParts, 2)
    \cup { <<OneDay, UnknownWord, LetterFirst>>, <<OneDay, LetterFirst, UnknownWord>> }

\* InvalidTimeFormat quotes the shortcut, which is filled in when it is typed
FailingTime(text, error, marked) == [text |-> text, error |-> error, marked |-> marked]
FailingTimes ==
  { FailingTime(<<>>, NoError, FALSE),
    FailingTime(<<"1", "7", ":", "3", "0">>, NoError, FALSE),
    FailingTime(<<"2", "5", ":", "0", "0">>, Error("InvalidHour", <<"2", "5">>), FALSE),
    FailingTime(<<"1", "0", ":", "6", "1">>, Error("InvalidTimeFormat", <<>>), FALSE),
    FailingTime(<<"1", "3", "p", "m">>, Error("InvalidAmPmHour", <<"1", "3">>), TRUE) }
LocaleFailingTimes(loc) == {t \in FailingTimes : ~t.marked \/ Len(loc.am \o loc.pm) > 0}

FailingPartText(loc, p) == IF p.bad THEN p.text ELSE TokenText(loc, p.tok)
RECURSIVE FailingPartsText(_, _)
FailingPartsText(loc, parts) ==
  IF parts = <<>> THEN <<>>
  ELSE Join(FailingPartText(loc, Head(parts)), FailingPartsText(loc, Tail(parts)))
FailingText(loc, ty) == Join(Join(ty.head, FailingPartsText(loc, ty.parts)), ty.time.text)

\* the times typed after a date part: none, or one the locale can read
TimesAfter(loc) == {NoTimeText} \cup LocaleTimeTexts(loc)

TypedShortcuts(loc) ==
  { [kind |-> "relative", head |-> h, toks |-> toks, dot |-> dot, time |-> t] :
      h \in TodayHeads(loc), toks \in TokenSeqs, dot \in Dots, t \in TimesAfter(loc) }
  \cup
  { [kind |-> "absolute", head |-> h, date |-> td, toks |-> toks, dot |-> dot, time |-> t] :
      h \in FirstTodayHeads(loc), td \in TypedDates, toks \in AbsTails, dot \in Dots,
      t \in {NoTimeText, TimeText(<<"1", "7", ":", "3", "0">>, 17, 30, 0, FALSE)} }
  \cup
  UNION { { [kind |-> "keyword", sign |-> sg, digits |-> n, type |-> u, index |-> k] :
              sg \in KeywordSigns, n \in KeywordMagnitudes, k \in KeywordIndices(loc, u) } :
          u \in KeywordTypes }
  \cup
  UNION { { [kind |-> "inserted", toks |-> toks, at |-> at, sign |-> sg, digits |-> n, index |-> k] :
              at \in 0..Len(toks), sg \in KeywordSigns, n \in KeywordMagnitudes,
              k \in KeywordIndices(loc, "today") } :
          toks \in InsertBases }
  \cup
  { [kind |-> "malformed", head |-> h, place |-> p] :
      h \in FirstTodayHeads(loc),
      p \in { q \in MalformedPlaces : (q.bad \in LoneSigns => q.rest = <<>>)
                                         /\ (IsNumeral(q.bad) => q.rest # <<>>) } }
  \cup
  { [kind |-> "spaced", head |-> h, toks |-> toks, pad |-> pad, gap |-> gap, signGap |-> sg,
     dot |-> dot, time |-> t] :
      h \in FirstTodayHeads(loc), toks \in SpacedBases, pad \in Pads, gap \in Gaps,
      sg \in SignGaps, dot \in {<<>>},
      t \in {NoTimeText, TimeText(<<"1", "7", ":", "3", "0">>, 17, 30, 0, FALSE)} }
  \cup
  { [kind |-> "failing", head |-> h, parts |-> parts, time |-> t] :
      h \in FirstTodayHeads(loc), parts \in FailingSeqs, t \in LocaleFailingTimes(loc) }
  \cup
  { [kind |-> "other", text |-> txt] : txt \in OtherTexts }

\* the text of the date part: keyword, date and tokens with single spaces,
\* the dot right after the last of them
DateText(loc, ty) ==
  LET abs == IF ty.kind = "absolute" THEN AbsText(loc, ty.date) ELSE <<>>
  IN  Join(Join(ty.head, abs), TokensText(loc, ty.toks)) \o ty.dot

TextOf(loc, ty) ==
  IF ty.kind = "other" THEN ty.text
  ELSE IF ty.kind = "keyword" THEN ty.sign \o ty.digits \o KeywordOf(loc, ty)
  ELSE IF ty.kind = "inserted" THEN InsertedText(loc, ty)
  ELSE IF ty.kind = "malformed" THEN MalformedText(loc, ty)
  ELSE IF ty.kind = "spaced" THEN SpacedText(loc, ty)
  ELSE IF ty.kind = "failing" THEN FailingText(loc, ty)
  ELSE Join(DateText(loc, ty), ty.time.text)

-----------------------------------------------------------------------------
(* parse: a parser is constructed from the options and parse is called     *)
(* with the shortcut.                                                      *)

NoResult == [kind |-> "none"]
NoDate == [day |-> 0, tod |-> 0]
NotTyped == [kind |-> "none"]

Init ==
  /\ locale \in LocaleIds
  /\ fromDate \in FromDates
  /\ defaultTime \in {ConstructDefaultTime(o) : o \in DefaultTimeOptions}
  /\ unitTypeMap = CreateUnitTypeMap(Locales[locale])
  /\ typed \in TypedShortcuts(Locales[locale])
  /\ shortcut = TextOf(Locales[locale], typed)
  /\ pc = "parse"
  /\ result = NoResult
  /\ date = NoDate /\ before = NoDate /\ part = <<>> /\ thrown = NoError
  /\ log = <<>> /\ returned = <<>> /\ constructedAt = fromDate

\* parser.parse(shortcut)
ParseCall ==
  /\ pc = "parse"
  /\ result' = Parse(shortcut, Locales[locale], unitTypeMap, fromDate, defaultTime)
  /\ pc' = "parsed"
  /\ UNCHANGED <<locale, fromDate, defaultTime, unitTypeMap, shortcut, date, before, part, thrown, typed, log, returned, constructedAt>>

Next == ParseCall

Spec == Init /\ [][Next]_vars

-----------------------------------------------------------------------------
(* _applySinglePart and _findClosestWorkday on a running date, in the      *)
(* order _parseDate calls them: a token is applied to the date, then the   *)
(* closest workday of the outcome is looked up.                            *)

Signs == { <<>>, <<"+">>, <<"-">> }
Magnitudes == { <<>> } \cup { NumToStr(n) : n \in 0..MaxAmount }
UnitTypes == { "year", "month", "week", "day", "today", "weekday" }

\* the running dates: every day from 1 January 2025 on for SpanDays days
\* (months of 20, 21, 22 and 23 business days), and month ends of 2023/2024
RunningDates ==
  { [day |-> DaysFromCivil(2025, 1, 1) + k, tod |-> 0] : k \in 0..(SpanDays - 1) }
  \cup { DateAt(2024, 1, 31, 0), DateAt(2024, 2, 29, 0), DateAt(2024, 3, 31, 0),
         DateAt(2023, 12, 31, 0) }

InitParts ==
  /\ locale = "en"
  /\ fromDate \in {DateAt(2024, 5, 15, 36000000)}
  /\ defaultTime = NoTime
  /\ unitTypeMap = CreateUnitTypeMap(Locales[locale])
  /\ typed \in { Token(s, n, u) : s \in Signs, n \in Magnitudes, u \in UnitTypes }
  /\ part = TokenText(Locales[locale], typed)
  /\ date \in RunningDates
  /\ before = date
  /\ thrown = NoError
  /\ pc = "part"
  /\ shortcut = <<>> /\ result = NoResult
  /\ log = <<>> /\ returned = <<>> /\ constructedAt = fromDate

\* this._applySinglePart(date, part)
ApplySinglePartCall ==
  /\ pc = "part"
  /\ LET r == ApplySinglePart(date, part, Locales[locale], unitTypeMap)
     IN  date' = r.date /\ thrown' = r.thrown
  /\ pc' = "applied"
  /\ UNCHANGED <<locale, fromDate, defaultTime, unitTypeMap, shortcut, result, before, part, typed, log, returned, constructedAt>>

\* this._findClosestWorkday(currentDate): the date handed over is left as it
\* is, the adjusted copy is returned
FindClosestWorkdayCall ==
  /\ pc = "applied" /\ thrown = NoError
  /\ result' = Returned(FindClosestWorkday(date))
  /\ pc' = "adjusted"
  /\ UNCHANGED <<locale, fromDate, defaultTime, unitTypeMap, shortcut, date, before, part, thrown, typed, log, returned, constructedAt>>

NextParts == ApplySinglePartCall \/ FindClosestWorkdayCall

SpecParts == InitParts /\ [][NextParts]_vars

-----------------------------------------------------------------------------
(* _extractTime on a trimmed shortcut that ends in a time expression typed *)
(* from an hour, optional minute and second fields and an optional marker. *)

\* a number below 100 typed with two digits
TwoDigits(n) == <<Digits[(n \div 10) + 1], Digits[(n % 10) + 1]>>

TypedHours == { NumToStr(h) : h \in 0..MaxHour } \cup { TwoDigits(h) : h \in 0..9 }
\* minute and second fields: not typed, or two digits in or out of range
TypedMinutes == { <<>>, <<"0", "0">>, <<"0", "5">>, <<"5", "9">>, <<"6", "0">>, <<"9", "9">> }
TypedSeconds == { <<>>, <<"0", "0">>, <<"5", "9">>, <<"6", "0">> }
TypedMarkers == { <<>>, <<"a", "m">>, <<"p", "m">>, <<"A", "M">>, <<"P", "m">> }
TypedGaps == { <<>>, <<" ">> }
TypedDateParts == { <<>>, <<"t">>, <<"t", "+", "1", "d">> }

TypedTimes ==
  { [datePart |-> dp, hour |-> h, minute |-> mi, second |-> se, gap |-> g, marker |-> mk] :
      dp \in TypedDateParts, h \in TypedHours, mi \in TypedMinutes, se \in TypedSeconds,
      g \in TypedGaps, mk \in TypedMarkers }

TimeFieldsText(ty) ==
  ty.hour \o (IF ty.minute = <<>> THEN <<>> ELSE <<":">> \o ty.minute)
          \o (IF ty.second = <<>> THEN <<>> ELSE <<":">> \o ty.second)
          \o (IF ty.marker = <<>> THEN <<>> ELSE ty.gap \o ty.marker)

InitTime ==
  /\ locale \in {"en", "de"}
  /\ fromDate \in {DateAt(2024, 5, 15, 36000000)}
  /\ defaultTime = NoTime
  /\ unitTypeMap = CreateUnitTypeMap(Locales[locale])
  /\ typed \in { ty \in TypedTimes : (ty.second = <<>> \/ ty.minute # <<>>)
                                      /\ (ty.gap = <<>> \/ ty.marker # <<>>) }
  /\ shortcut = Join(typed.datePart, TimeFieldsText(typed))
  /\ pc = "time"
  /\ result = NoResult
  /\ date = NoDate /\ before = NoDate /\ part = <<>> /\ thrown = NoError
  /\ log = <<>> /\ returned = <<>> /\ constructedAt = fromDate

\* this._extractTime(trimmedShortcut)
ExtractTimeCall ==
  /\ pc = "time"
  /\ result' = ExtractTime(shortcut, Locales[locale])
  /\ pc' = "extracted"
  /\ UNCHANGED <<locale, fromDate, defaultTime, unitTypeMap, shortcut, date, before, part, thrown, typed, log, returned, constructedAt>>

NextTime == ExtractTimeCall

SpecTime == InitTime /\ [][NextTime]_vars

-----------------------------------------------------------------------------
(* A caller that keeps one parser: it calls parse several times and writes *)
(* to the Date objects the calls returned.                                 *)

\* the shortcuts the caller passes: dates, a time alone, and failing ones
CallTexts ==
  { <<"1", "d">>,
    <<"t", " ", "1", "m", ".">>,
    <<"5", "p", "m">>,
    <<"g", "a", "r", "b", "a", "g", "e">>,
    <<" ">> }

\* the instants the caller writes into a Date object it was handed
WrittenDates == { DateAt(1999, 12, 31, 86399999) }

\* A Date object in the hands of the caller: its time value, and whether it
\* is the object of this.options.fromDate or an object of its own
DateObject(fresh, value) == [fresh |-> fresh, value |-> value]

\* the object of this.options.fromDate itself, handed out
ReferenceObject(value) == DateObject(FALSE, value)

\* new Date(...): the date parse returns is an object allocated in the call,
\* by _parseDate, _tryParseAbsoluteDate, _findNthWeekday or _findClosestWorkday
NewDate(value) == DateObject(TRUE, value)

InitCalls ==
  /\ locale \in {"en", "de"}
  /\ fromDate \in {DateAt(2024, 5, 15, 36000000), DateAt(2025, 1, 31, 86399999)}
  /\ defaultTime \in {ConstructDefaultTime(o) : o \in DefaultTimeOptions}
  /\ unitTypeMap = CreateUnitTypeMap(Locales[locale])
  /\ pc = "idle"
  /\ shortcut = <<>> /\ result = NoResult /\ typed = NotTyped
  /\ date = NoDate /\ before = NoDate /\ part = <<>> /\ thrown = NoError
  /\ log = <<>> /\ returned = <<>> /\ constructedAt = fromDate

\* what the call leaves with the caller: the outcome in the log, and the
\* returned object if there is one
Logged(str, outcome) ==
  /\ result' = outcome
  /\ log' = Append(log, [shortcut |-> str, outcome |-> outcome])
  /\ returned' = IF outcome.kind = "date" THEN Append(returned, NewDate(outcome.value))
                 ELSE returned

\* parser.parse(str), one call after another on the same parser
ParseAgain(str) ==
  /\ Len(log) < MaxCalls
  /\ shortcut' = str
  /\ Logged(str, Parse(str, Locales[locale], unitTypeMap, fromDate, defaultTime))
  /\ pc' = "called"
  /\ UNCHANGED <<locale, fromDate, defaultTime, unitTypeMap, date, before, part, thrown, typed,
                 constructedAt>>

\* the caller writes to a Date object it was handed (setTime and the like);
\* the write reaches the parser if the object is the parser's own
WriteReturned(i, value) ==
  /\ returned[i].value # value
  /\ returned' = [returned EXCEPT ![i].value = value]
  /\ fromDate' = IF returned[i].fresh THEN fromDate ELSE value
  /\ pc' = "written"
  /\ UNCHANGED <<locale, defaultTime, unitTypeMap, shortcut, result, date, before, part, thrown,
                 typed, log, constructedAt>>

NextCalls ==
  \/ \E str \in CallTexts : ParseAgain(str)
  \/ \E i \in 1..Len(returned), value \in WrittenDates : WriteReturned(i, value)

SpecCalls == InitCalls /\ [][NextCalls]_vars

-----------------------------------------------------------------------------
(* new DateShortcutParser({defaultTime}): the constructor reads the        *)
(* defaultTime option.                                                     *)

\* the components a default time is typed from, and the default times of
\* the test suite
TimeComponents ==
  { <<>>, <<"9">>, <<"0", "9">>, <<"2", "3">>, <<"2", "4">>, <<"5", "9">>, <<"6", "0">>,
    <<"-", "1">>, <<"a", "b">> }
TypedDefaultTimes ==
  (SeqsUpTo(TimeComponents, MaxTimeParts) \ {<<>>})
  \cup { <<<<"9", "9">>, <<"0", "0">>>>,
         << <<"n", "o", "t", "-", "a", "-", "t", "i", "m", "e">> >> }

\* the components with ':' between them
RECURSIVE JoinColon(_)
JoinColon(comps) ==
  IF Len(comps) = 1 THEN comps[1]
  ELSE comps[1] \o <<":">> \o JoinColon(Tail(comps))

InitConstruct ==
  /\ locale = "en"
  /\ fromDate = DateAt(2024, 5, 15, 36000000)
  /\ unitTypeMap = CreateUnitTypeMap(Locales[locale])
  /\ defaultTime = NoTime
  /\ typed \in TypedDefaultTimes
  /\ shortcut = JoinColon(typed)
  /\ pc = "construct"
  /\ result = NoResult
  /\ date = NoDate /\ before = NoDate /\ part = <<>> /\ thrown = NoError
  /\ log = <<>> /\ returned = <<>> /\ constructedAt = fromDate

\* if (this.options.defaultTime) this.defaultTime = this._parseTimeToken(...)
Constructed(option, token) ==
  IF option # <<>> /\ token.thrown # NoError
  THEN thrown' = token.thrown /\ defaultTime' = NoTime /\ pc' = "failed"
  ELSE thrown' = NoError /\ defaultTime' = ConstructDefaultTime(option) /\ pc' = "constructed"

\* the constructor called with the defaultTime option
ConstructCall ==
  /\ pc = "construct"
  /\ Constructed(shortcut, ParseTimeToken(shortcut))
  /\ UNCHANGED <<locale, fromDate, unitTypeMap, shortcut, result, date, before, part, typed,
                 log, returned, constructedAt>>

NextConstruct == ConstructCall

SpecConstruct == InitConstruct /\ [][NextConstruct]_vars

-----------------------------------------------------------------------------
(* parse called with shortcuts typed in small letters, in capitals and in  *)
(* mixed case, on locales that list their keywords in small letters or not *)

\* String.prototype.toUpperCase on the ASCII letters
UpperChar(c) == IF c \in SeqRange(LowerLetters) THEN UpperLetters[IndexIn(LowerLetters, c)] ELSE c
toUpperCase(str) == [i \in 1..Len(str) |-> UpperChar(str[i])]

\* every second character in capitals
MixedCase(str) == [i \in 1..Len(str) |-> IF i % 2 = 1 THEN UpperChar(str[i]) ELSE str[i]]

\* shortcuts in small letters that en accepts, with unit keywords, today
\* keywords and AM/PM markers
CaseTexts ==
  { <<"1", "y">>,
    <<"t">>,
    <<"t", "o", "d", "a", "y", " ", "+", "2", "w", "k">>,
    <<"n", "o", "w", " ", "-", "3", "d", "a", "y">>,
    <<"1", "m", "o", " ", "5", "p", "m">>,
    <<"2", "w", "d">>,
    <<"5", ":", "3", "0", " ", "p", "m">>,
    <<"1", "2", "a", "m">>,
    <<"t", " ", "1", "y", "r", " ", "9", "a", "m">> }
CaseVariants == {"lower", "upper", "mixed"}
CasedText(ty) ==
  IF ty.variant = "upper" THEN toUpperCase(ty.text)
  ELSE IF ty.variant = "mixed" THEN MixedCase(ty.text)
  ELSE ty.text

InitCase ==
  /\ locale \in {"en", "capitals"}
  /\ fromDate \in FromDates
  /\ defaultTime \in {ConstructDefaultTime(o) : o \in DefaultTimeOptions}
  /\ unitTypeMap = CreateUnitTypeMap(Locales[locale])
  /\ typed \in { [kind |-> "cased", text |-> txt, variant |-> v] :
                   txt \in CaseTexts, v \in CaseVariants }
  /\ shortcut = CasedText(typed)
  /\ pc = "parse"
  /\ result = NoResult
  /\ date = NoDate /\ before = NoDate /\ part = <<>> /\ thrown = NoError
  /\ log = <<>> /\ returned = <<>> /\ constructedAt = fromDate

SpecCase == InitCase /\ [][Next]_vars

-----------------------------------------------------------------------------
(* The calendar as the properties speak of it, written down independently  *)
(* of the Date arithmetic above.                                           *)

IsLeapYear(y) == (y % 4 = 0 /\ y % 100 # 0) \/ y % 400 = 0

\* number of days of month m (1..12) of year y
MonthLength(y, m) ==
  IF m = 2 THEN (IF IsLeapYear(y) THEN 29 ELSE 28)
  ELSE IF m \in {4, 6, 9, 11} THEN 30 ELSE 31

\* weekday of a calendar date, 0 = Sunday .. 6 = Saturday, by the
\* month-offset table
WeekdayOf(y, m, d) ==
  LET offsets == <<0, 3, 2, 5, 0, 3, 5, 1, 4, 6, 2, 4>>
      yy == IF m < 3 THEN y - 1 ELSE y
  IN  (yy + yy \div 4 - yy \div 100 + yy \div 400 + offsets[m] + d) % 7

\* the Monday-to-Friday days of the month, ascending
BusinessDays(y, m) ==
  SelectSeq([d \in 1..MonthLength(y, m) |-> d], LAMBDA d : WeekdayOf(y, m, d) \in 1..5)

\* year, month (1..12) and day of a Date
Civil(dt) ==
  LET c == CivilFromDays(dt.day) IN [year |-> c.year, month |-> c.month + 1, day |-> c.day]

\* the signed amount a token was typed with
TypedMagnitude(tok) == ParseInt(tok.digits)
TypedAmount(tok) == IF tok.sign = <<"-">> THEN 0 - TypedMagnitude(tok) ELSE TypedMagnitude(tok)

\* the date a months away from dt, the day clamped to the target month
MonthsAway(dt, a) ==
  LET c     == Civil(dt)
      index == c.year * 12 + (c.month - 1) + a
      ty    == index \div 12
      tm    == (index % 12) + 1
  IN  DateAt(ty, tm, Min(c.day, MonthLength(ty, tm)), dt.tod)

-----------------------------------------------------------------------------
(* Properties of _applySinglePart and _findClosestWorkday (SpecParts).     *)

\* C1: a month token typed with amount a moves the running date to the
\* calendar month a months away (the year rolling over) and sets the day to
\* min(original day, days of the target month); nothing is thrown.
C1_MonthClamps ==
  (pc \in {"applied", "adjusted"} /\ typed.type = "month" /\ typed.digits # <<>>) =>
    /\ thrown = NoError
    /\ date = MonthsAway(before, TypedAmount(typed))

\* Jan 31 of a leap year, +1m: Feb 29
C1_Witness ==
  /\ pc = "applied"
  /\ typed = Token(<<"+">>, <<"1">>, "month")
  /\ before = DateAt(2024, 1, 31, 0)
  /\ date = DateAt(2024, 2, 29, 0)

C3_NthWeekday ==
  (pc \in {"applied", "adjusted"} /\ typed.type = "weekday" /\ typed.digits # <<>>
     /\ TypedMagnitude(typed) >= 1) =>
    LET c  == Civil(before)
        bd == BusinessDays(c.year, c.month)
        n  == TypedMagnitude(typed)
        k  == IF typed.sign = <<"-">> THEN Len(bd) - n + 1 ELSE n
    IN  IF n <= Len(bd)
        THEN thrown = NoError /\ date = DateAt(c.year, c.month, bd[k], 0)
        ELSE thrown = Error("WeekdayNotFound", typed.digits) /\ date = before

\* February 2025 has 20 business days: -20wd is its first, Monday the 3rd
C3_Witness ==
  /\ pc = "applied"
  /\ typed = Token(<<"-">>, <<"2", "0">>, "weekday")
  /\ before = DateAt(2025, 2, 10, 0)
  /\ Len(BusinessDays(2025, 2)) = 20
  /\ date = DateAt(2025, 2, 3, 0)

-----------------------------------------------------------------------------
(* Properties of _extractTime (SpecTime).                                  *)

\* the values of the typed time fields; a field not typed counts as 0
TypedHour == ParseInt(typed.hour)
TypedMinute == ParseInt(typed.minute)
TypedSecond == ParseInt(typed.second)
TypedPm == typed.marker \in { <<"p", "m">>, <<"P", "m">> }
\* a marker was typed and the locale reads markers
Marked == typed.marker # <<>> /\ Len(Locales[locale].am \o Locales[locale].pm) > 0
MinuteSecondInRange == TypedMinute <= 59 /\ TypedSecond <= 59

\* the hour of the 24-hour clock that an hour in 1..12 with a marker denotes
TwentyFourHour(h, pm) ==
  IF h = 12 THEN (IF pm THEN 12 ELSE 0) ELSE (IF pm THEN h + 12 ELSE h)

\* C4 as stated: with a marker, an hour outside 1..12 fails with the
\* AM/PM-hour error, and an hour in 1..12 is converted (12pm -> 12,
\* 12am -> 0, 1..11pm -> +12, 1..11am unchanged) to an hour in 0..23.
C4_AsStated ==
  (pc = "extracted" /\ Marked) =>
    /\ TypedHour \notin 1..12 => result.thrown.kind = "InvalidAmPmHour"
    /\ result.thrown = NoError =>
         /\ result.timeInfo.hour = TwentyFourHour(TypedHour, TypedPm)
         /\ result.timeInfo.hour \in 0..23

\* C4, amended: as stated when the minute and second typed are within 0..59;
\* when one of them is not, the invalid-time-format error is thrown first,
\* whatever the hour.
C4_AmPmConversion ==
  (pc = "extracted" /\ Marked) =>
    IF ~MinuteSecondInRange THEN result.thrown = Error("InvalidTimeFormat", shortcut)
    ELSE IF TypedHour \notin 1..12 THEN result.thrown.kind = "InvalidAmPmHour"
    ELSE /\ result.thrown = NoError
         /\ result.timeInfo.hour = TwentyFourHour(TypedHour, TypedPm)
         /\ result.timeInfo.hour \in 0..23
         /\ result.timeInfo.minute = TypedMinute
         /\ result.timeInfo.second = TypedSecond

\* "t 12 AM" is read as hour 0
C4_Witness ==
  /\ pc = "extracted"
  /\ typed.datePart = <<"t">> /\ typed.hour = <<"1", "2">> /\ typed.minute = <<>>
  /\ typed.gap = <<" ">> /\ typed.marker = <<"A", "M">>
  /\ Marked
  /\ result.thrown = NoError /\ result.timeInfo.hour = 0

\* C5 as stated: without a marker, an hour outside 0..23 fails with the
\* invalid-hour error quoting the hour as typed, a minute or second outside
\* 0..59 fails with the invalid-time-format error, and an accepted time has
\* hour in 0..23 and minute and second in 0..59.
C5_AsStated ==
  (pc = "extracted" /\ typed.marker = <<>>) =>
    /\ TypedHour > 23 => result.thrown = Error("InvalidHour", typed.hour)
    /\ ~MinuteSecondInRange => result.thrown.kind = "InvalidTimeFormat"
    /\ result.thrown = NoError =>
         /\ result.timeInfo.hour \in 0..23
         /\ result.timeInfo.minute \in 0..59
         /\ result.timeInfo.second \in 0..59

\* C5, amended: a minute or second outside 0..59 fails with the
\* invalid-time-format error whatever the hour; with minute and second in
\* range, an hour outside 0..23 fails with the invalid-hour error quoting the
\* hour as typed; otherwise the time is accepted with the typed values.
C5_TimeValidation ==
  (pc = "extracted" /\ typed.marker = <<>>) =>
    IF ~MinuteSecondInRange THEN result.thrown = Error("InvalidTimeFormat", shortcut)
    ELSE IF TypedHour > 23 THEN result.thrown = Error("InvalidHour", typed.hour)
    ELSE /\ result.thrown = NoError
         /\ result.timeInfo = TimeInfo(TypedHour, TypedMinute, TypedSecond)
         /\ result.timeInfo.hour \in 0..23
         /\ result.timeInfo.minute \in 0..59
         /\ result.timeInfo.second \in 0..59

\* "24:00" fails with the invalid-hour error that quotes 24
C5_Witness ==
  /\ pc = "extracted"
  /\ typed.hour = <<"2", "4">> /\ typed.minute = <<"0", "0">> /\ typed.marker = <<>>
  /\ result.thrown = Error("InvalidHour", <<"2", "4">>)

-----------------------------------------------------------------------------
(* Properties of parse (Spec).                                             *)

\* the unit types whose keyword list of the locale holds the keyword
CategoriesOf(loc, keyword) == {t \in UnitTypes : Includes(loc[t], keyword)}
\* the keyword of the token is listed under the token's unit type only
Unambiguous(loc, tok) == CategoriesOf(loc, loc[tok.type][1]) = {tok.type}

\* the per-unit operation of a token on a date
UnitOperation(dt, tok) ==
  IF tok.type = "year" THEN ApplyYear(dt, TypedAmount(tok))
  ELSE IF tok.type = "month" THEN ApplyMonth(dt, TypedAmount(tok))
  ELSE IF tok.type = "week" THEN ApplyWeek(dt, TypedAmount(tok))
  ELSE ApplyDay(dt, TypedAmount(tok))

\* the per-unit operations of the tokens folded over the date, first token first
RECURSIVE FoldTokens(_, _)
FoldTokens(dt, toks) ==
  IF toks = <<>> THEN dt ELSE FoldTokens(UnitOperation(dt, Head(toks)), Tail(toks))

\* a date moved off the weekend: Saturday one day back, Sunday one day on
OffWeekend(dt) ==
  LET c == Civil(dt)
      w == WeekdayOf(c.year, c.month, c.day)
  IN  [dt EXCEPT !.day = IF w = 6 THEN @ - 1 ELSE IF w = 0 THEN @ + 1 ELSE @]

\* milliseconds into the day of an hour, minute and second
MillisOf(t) == ((t.hour * 60 + t.minute) * 60 + t.second) * 1000

Midnight(dt) == [dt EXCEPT !.tod = 0]

\* the typed shortcut is made of fields, and which of them were typed
Fielded == typed.kind \in {"relative", "absolute"}
DatePartTyped == Fielded /\ DateText(Locales[locale], typed) # <<>>
TimeTyped == Fielded /\ typed.time # NoTimeText

\* the time of day a successful parse of the typed fields ends with
ExpectedMillis ==
  IF TimeTyped THEN MillisOf(typed.time)
  ELSE IF defaultTime # NoTime THEN MillisOf(defaultTime)
  ELSE 0

\* C6: a successful parse of a shortcut with a date part has the time of day
\* of the typed trailing time if one was typed, else of the configured
\* default time if there is one, else 00:00:00.000.
C6_TimePrecedence ==
  (pc = "parsed" /\ DatePartTyped /\ result.kind = "date") =>
    result.value.tod = ExpectedMillis

\* "t 1m 17:30" on a parser with default time 09:30:15 is at 17:30:00
C6_Witness ==
  /\ pc = "parsed" /\ locale = "en"
  /\ typed.kind = "relative" /\ typed.head = <<"t">>
  /\ typed.toks = <<Token(<<>>, <<"1">>, "month")>>
  /\ typed.time = TimeText(<<"1", "7", ":", "3", "0">>, 17, 30, 0, FALSE)
  /\ defaultTime = TimeInfo(9, 30, 15)
  /\ result.kind = "date" /\ result.value.tod = 63000000

\* C7: a shortcut that is a time expression and nothing else parses to the
\* reference instant's calendar day at the typed hour, minute and second with
\* zero milliseconds, whatever the reference's time of day and the default.
C7_TimeOnlyKeepsDate ==
  (pc = "parsed" /\ Fielded /\ ~DatePartTyped /\ TimeTyped) =>
    result = Returned([day |-> fromDate.day, tod |-> MillisOf(typed.time)])

\* "9:05:07" at reference 2025-01-31T23:59:59.999Z with a default time set
C7_Witness ==
  /\ pc = "parsed"
  /\ shortcut = <<"9", ":", "0", "5", ":", "0", "7">>
  /\ fromDate = DateAt(2025, 1, 31, 86399999)
  /\ defaultTime # NoTime
  /\ result = Returned(DateAt(2025, 1, 31, 32707000))

\* the result of a relative shortcut is the fold of the per-unit operations
\* of its tokens, in the order typed, over the reference's midnight
FoldedLeftToRight ==
  (pc = "parsed" /\ typed.kind = "relative" /\ DatePartTyped
     /\ \A i \in 1..Len(typed.toks) : Unambiguous(Locales[locale], typed.toks[i])) =>
    LET folded == FoldTokens(Midnight(fromDate), typed.toks)
        expect == IF typed.dot = <<>> THEN folded ELSE OffWeekend(folded)
    IN  result = Returned([day |-> expect.day, tod |-> ExpectedMillis])

\* the shortcut typed is "1m 1d" in en, from a reference on the given day
\* of January
MonthThenDay(day) ==
  /\ pc = "parsed" /\ locale = "en"
  /\ Civil(fromDate).month = 1 /\ Civil(fromDate).day = day
  /\ shortcut = <<"1", "m", " ", "1", "d">>

\* what the same parser returns for "1d 1m"
DayThenMonth ==
  Parse(<<"1", "d", " ", "1", "m">>, Locales[locale], unitTypeMap, fromDate, defaultTime)

\* C8 as stated: tokens are applied left to right, each to the date the
\* token before it produced, and "1m 1d" differs from "1d 1m" from Jan 31.
C8_AsStated ==
  /\ FoldedLeftToRight
  /\ MonthThenDay(31) => result # DayThenMonth

\* C8, amended: tokens are applied left to right, each to the date the token
\* before it produced, and "1m 1d" differs from "1d 1m" from Jan 30 of a
\* year that is not a leap year (from Jan 31 both give March 1).
C8_LeftToRight ==
  /\ FoldedLeftToRight
  /\ (MonthThenDay(30) /\ ~IsLeapYear(Civil(fromDate).year)) => result # DayThenMonth
  /\ MonthThenDay(31) => result = DayThenMonth

\* "1m 1d" from 2025-01-30 is March 1, "1d 1m" is February 28
C8_Witness ==
  /\ MonthThenDay(30)
  /\ typed.kind = "relative" /\ typed.head = <<>> /\ typed.dot = <<>> /\ ~TimeTyped
  /\ fromDate.day = DaysFromCivil(2025, 1, 30)
  /\ result.kind = "date" /\ Civil(result.value) = [year |-> 2025, month |-> 3, day |-> 1]
  /\ Civil(DayThenMonth.value) = [year |-> 2025, month |-> 2, day |-> 28]

\* the year a typed year field stands for: the reference's year when not
\* typed, 2000 + value for one or two digits, the value itself otherwise
TypedYear(td) ==
  IF td.year = <<>> THEN Civil(fromDate).year
  ELSE IF Len(td.year) <= 2 THEN 2000 + ParseInt(td.year)
  ELSE ParseInt(td.year)

\* the typed fields name a day of the calendar, the year not typed or typed
\* with two or four digits
CalendarDay(td) ==
  /\ ParseInt(td.month) \in 1..12
  /\ ParseInt(td.day) \in 1..MonthLength(TypedYear(td), ParseInt(td.month))
  /\ Len(td.year) \in {0, 2, 4} /\ TypedYear(td) >= 1000

BuiltIn == locale \in {"en", "de", "fr", "tr"}

C10_IsoDate ==
  (pc = "parsed" /\ locale = "custom"
     /\ shortcut = <<"2", "0", "2", "5", "-", "1", "2", "-", "2", "5">>) =>
    /\ result.kind = "date"
    /\ Civil(result.value) = [year |-> 2025, month |-> 12, day |-> 25]

-----------------------------------------------------------------------------
(* Further properties of _applySinglePart (SpecParts).                     *)

\* C11: a year token typed with amount a adds a to the calendar year of the
\* running date and leaves its month and day of the month as they were, on
\* every running date, 29 February included; nothing is thrown.
C11_YearKeepsMonthDay ==
  (pc \in {"applied", "adjusted"} /\ typed.type = "year" /\ typed.digits # <<>>) =>
    /\ thrown = NoError
    /\ Civil(date) = [year  |-> Civil(before).year + TypedAmount(typed),
                      month |-> Civil(before).month,
                      day   |-> Civil(before).day]

\* the token of the state typed as a day token with seven times the magnitude
SevenFoldDays == typed.sign \o NumToStr(7 * TypedMagnitude(typed)) \o <<"d">>

\* C12: a day token typed with amount a moves the running date by exactly a
\* days and a week token by exactly 7a days, forwards and backwards, across
\* month and year ends; a week token does what the day token with seven
\* times its magnitude does; the time of day is left alone.
C12_DayWeekOffsets ==
  (pc \in {"applied", "adjusted"} /\ typed.type \in {"day", "week"} /\ typed.digits # <<>>) =>
    /\ thrown = NoError
    /\ typed.type = "day" => date = [before EXCEPT !.day = @ + TypedAmount(typed)]
    /\ typed.type = "week" =>
         /\ date = [before EXCEPT !.day = @ + 7 * TypedAmount(typed)]
         /\ date = ApplySinglePart(before, SevenFoldDays, Locales[locale], unitTypeMap).date

\* 1 January 2025, -1w: 25 December 2024
C12_Witness ==
  /\ pc = "applied"
  /\ typed = Token(<<"-">>, <<"1">>, "week")
  /\ before = DateAt(2025, 1, 1, 0)
  /\ date = DateAt(2024, 12, 25, 0)

-----------------------------------------------------------------------------
(* Properties of the unit keywords (Spec).                                 *)

\* the n-th business day of the month of dt, from the end when fromEnd
NthBusinessDay(dt, n, fromEnd) ==
  LET c  == Civil(dt)
      bd == BusinessDays(c.year, c.month)
  IN  DateAt(c.year, c.month, bd[IF fromEnd THEN Len(bd) - n + 1 ELSE n], 0)

\* the date the adjustment of a unit type makes of the date dt, for a token
\* typed with magnitude n and a minus sign or none
AdjustedBy(dt, type, n, negative) ==
  LET a == IF negative THEN 0 - n ELSE n
      c == Civil(dt)
  IN  IF type = "year" THEN DateAt(c.year + a, c.month, c.day, dt.tod)
      ELSE IF type = "month" THEN MonthsAway(dt, a)
      ELSE IF type = "week" THEN [dt EXCEPT !.day = @ + 7 * a]
      ELSE IF type = "day" THEN [dt EXCEPT !.day = @ + a]
      ELSE IF type = "weekday" THEN NthBusinessDay(dt, n, negative)
      ELSE dt

\* a single token with a keyword of the locale was typed
KeywordTyped == pc = "parsed" /\ typed.kind = "keyword"

\* what a parse that ends at the date dt returns
ReturnedOn(dt) == Returned([day |-> dt.day, tod |-> ExpectedMillis])

Garbage == <<"g", "a", "r", "b", "a", "g", "e">>

\* C13: in a built-in locale, a token made of a magnitude and any keyword
\* listed under year, month, week, day or weekday is accepted and applies the
\* adjustment of the unit type the keyword is listed under; a keyword the
\* locale does not list fails with the unknown-unit error quoting it.
C13_ListedKeywordsUsable ==
  /\ (KeywordTyped /\ BuiltIn /\ typed.digits # <<>> /\ typed.type # "today") =>
       result = ReturnedOn(AdjustedBy(Midnight(fromDate), typed.type,
                                      ParseInt(typed.digits), typed.sign = <<"-">>))
  /\ (pc = "parsed" /\ typed.kind = "other" /\ typed.text = Garbage) =>
       result = Threw(Error("UnknownUnit", Garbage))

\* what the same parser returns for the typed keyword token with magnitude 1
\* written out
WithMagnitudeOne ==
  Parse(typed.sign \o <<"1">> \o KeywordOf(Locales[locale], typed),
        Locales[locale], unitTypeMap, fromDate, defaultTime)

\* C14: a token typed without magnitude, made of an optional sign and any
\* keyword of the locale, parses as the same token with magnitude 1 does:
\* when either of the two is accepted, both return the same date.
C14_MagnitudeDefaultsToOne ==
  (KeywordTyped /\ typed.digits = <<>>
     /\ (result.kind = "date" \/ WithMagnitudeOne.kind = "date")) =>
    result = WithMagnitudeOne

\* the unit types in the order the constructor registers them
RegistrationOrder == <<"year", "month", "week", "day", "today", "weekday">>

\* the first unit type, in registration order, that lists the keyword
FirstRegistered(loc, keyword) ==
  RegistrationOrder[CHOOSE i \in 1..Len(RegistrationOrder) :
                      /\ Includes(loc[RegistrationOrder[i]], keyword)
                      /\ \A j \in 1..(i - 1) : ~Includes(loc[RegistrationOrder[j]], keyword)]

\* C15: a keyword that a locale lists under more than one unit type means
\* the unit type registered first: the unit map holds that type for it, and a
\* token typed with it applies that type's adjustment (French 'a', listed
\* under year and under today, adds years).
C15_FirstRegisteredWins ==
  (KeywordTyped /\ typed.digits # <<>>
     /\ Cardinality(CategoriesOf(Locales[locale], KeywordOf(Locales[locale], typed))) > 1) =>
    LET first == FirstRegistered(Locales[locale], KeywordOf(Locales[locale], typed))
    IN  /\ MapGet(unitTypeMap, KeywordOf(Locales[locale], typed)) = first
        /\ result = ReturnedOn(AdjustedBy(Midnight(fromDate), first,
                                          ParseInt(typed.digits), typed.sign = <<"-">>))

-----------------------------------------------------------------------------
(* Today keywords among the relative tokens (Spec).                        *)

\* what the same parser makes of another text
ParseOf(text) == Parse(text, Locales[locale], unitTypeMap, fromDate, defaultTime)

\* a shortcut of the test suite was typed in a locale where t means today
TypedText(text) ==
  /\ pc = "parsed" /\ typed.kind = "other" /\ typed.text = text
  /\ Includes(Locales[locale].today, <<"t">>)

\* C16: a today keyword among the relative tokens is a no-op.  A token
\* sequence with a today keyword of the locale inserted at any position,
\* bare or with a sign or a magnitude, parses to what the sequence without
\* it parses to; 't t t t t' and '+t' parse as 't' does and '+1d t' as '+1d'.
C16_TodayTokensAreNoOps ==
  /\ (pc = "parsed" /\ typed.kind = "inserted") =>
       result = ParseOf(TokensText(Locales[locale], typed.toks))
  /\ TypedText(<<"t", " ", "t", " ", "t", " ", "t", " ", "t">>) => result = ParseOf(<<"t">>)
  /\ TypedText(<<"+", "t">>) => result = ParseOf(<<"t">>)
  /\ TypedText(<<"+", "1", "d", " ", "t">>) => result = ParseOf(<<"+", "1", "d">>)

-----------------------------------------------------------------------------
(* The leading today keyword (Spec).                                       *)

\* the today keywords of the locale that the text starts with, whatever its
\* case, and the longest of a set of words
TodayPrefixes(loc, text) == {w \in SeqRange(loc.today) : StartsWith(toLowerCase(text), w)}
LongestOf(words) == CHOOSE w \in words : \A v \in words : Len(v) <= Len(w)

\* the text without its leading today keyword: the longest keyword it starts
\* with is cut off, once, and what is left is trimmed
AfterLeadingToday(loc, text) ==
  IF TodayPrefixes(loc, text) = {} THEN text
  ELSE Trim(SubstringFrom(text, Len(LongestOf(TodayPrefixes(loc, text)))))

\* the shortcut typed is "today + 1d"
TodayPlusOneDay == shortcut = <<"t", "o", "d", "a", "y", " ", "+", " ", "1", "d">>

\* C17: the leading today keyword is consumed once and longest first.  Of
\* the text typed, the loop over the sorted today keywords cuts off the
\* longest keyword the text starts with and no more (of 't t t t t' the first
\* 't' only); a shortcut typed as a today keyword followed by relative tokens
\* returns the tokens applied to the reference date at midnight, and
\* 'today + 1d', which starts with the keywords 't' and 'today', returns the
\* day after the reference date.
C17_LongestTodayFirst ==
  pc = "parsed" =>
    /\ ConsumeToday(Trim(shortcut), SortByLengthDesc(Locales[locale].today, <<>>), 1)
         = AfterLeadingToday(Locales[locale], Trim(shortcut))
    /\ (typed.kind = "relative" /\ typed.head # <<>>
          /\ \A i \in 1..Len(typed.toks) : Unambiguous(Locales[locale], typed.toks[i])) =>
         LET folded == FoldTokens(Midnight(fromDate), typed.toks)
         IN  result = ReturnedOn(IF typed.dot = <<>> THEN folded ELSE OffWeekend(folded))
    /\ (TodayPlusOneDay /\ Includes(Locales[locale].today, <<"t", "o", "d", "a", "y">>)) =>
         result = ReturnedOn([Midnight(fromDate) EXCEPT !.day = @ + 1])

\* "today + 1d" in en from 2024-01-31: 1 February 2024, and both 't' and
\* 'today' start the text
C17_Witness ==
  /\ pc = "parsed" /\ locale = "en" /\ TodayPlusOneDay
  /\ TodayPrefixes(Locales[locale], shortcut) = {<<"t">>, <<"t", "o", "d", "a", "y">>}
  /\ fromDate.day = DaysFromCivil(2024, 1, 31)
  /\ result = Returned(DateAt(2024, 2, 1, 0))

-----------------------------------------------------------------------------
(* The parser between calls (SpecCalls).                                   *)

\* the configuration of the parser
Configuration == <<locale, fromDate, defaultTime, unitTypeMap>>

\* every logged call has the outcome that parse has on the parser as it is
\* now, and calls with the same shortcut have the same outcome
SameOutcomes ==
  /\ \A i \in 1..Len(log) : log[i].outcome = ParseOf(log[i].shortcut)
  /\ \A i, j \in 1..Len(log) : log[i].shortcut = log[j].shortcut => log[i].outcome = log[j].outcome

\* no object handed to the caller is the parser's own
AllFresh == \A i \in 1..Len(returned) : returned[i].fresh

-----------------------------------------------------------------------------
(* Malformed relative tokens (Spec).                                       *)

\* the call threw the invalid-part-format error quoting the text
InvalidPart(text) == result = Threw(Error("InvalidPartFormat", text))

\* the shortcut of the test suite with the given text was typed
OtherTyped(text) == pc = "parsed" /\ typed.kind = "other" /\ typed.text = text

\* C19: a malformed relative token is rejected.  Typed alone, behind a today
\* keyword, behind a valid token or before one, a token that is not optional
\* sign, optional digits and then letters makes parse throw the
\* invalid-part-format error quoting the token as typed, and a lone sign
\* typed last makes it throw that error quoting the sign: 'd1' quotes 'd1',
\* '++1d' quotes '++1d' and '1y +' quotes '+'.
C19_MalformedTokensRejected ==
  /\ (pc = "parsed" /\ typed.kind = "malformed") => InvalidPart(typed.place.bad)
  /\ OtherTyped(<<"d", "1">>) => InvalidPart(<<"d", "1">>)
  /\ OtherTyped(<<"+", "+", "1", "d">>) => InvalidPart(<<"+", "+", "1", "d">>)
  /\ (OtherTyped(<<"1", "y", " ", "+">>) /\ Includes(Locales[locale].year, <<"y">>)) =>
       InvalidPart(<<"+">>)

\* "t 1d ++1d 2m" in en throws the error quoting "++1d"
C19_Witness ==
  /\ pc = "parsed" /\ locale = "en"
  /\ shortcut = <<"t", " ", "1", "d", " ", "+", "+", "1", "d", " ", "2", "m">>
  /\ typed.kind = "malformed"
  /\ result = Threw(Error("InvalidPartFormat", <<"+", "+", "1", "d">>))

-----------------------------------------------------------------------------
(* The default time read at construction (SpecConstruct).                  *)

\* a component that is a number: digits, after a sign or not
IsNumeric(comp) == Unsigned(comp) # <<>> /\ IsNumeral(Unsigned(comp))
ValueOf(comp) == IF Head(comp) = "-" THEN 0 - ParseInt(Tail(comp)) ELSE ParseInt(Unsigned(comp))

\* the value of the k-th typed component, 0 for a component not typed
TypedValue(k) == IF k <= Len(typed) THEN ValueOf(typed[k]) ELSE 0

WellFormedDefault == Len(typed) \in 1..3 /\ \A k \in 1..Len(typed) : IsNumeric(typed[k])
DefaultInRange ==
  TypedValue(1) \in 0..23 /\ TypedValue(2) \in 0..59 /\ TypedValue(3) \in 0..59

\* the constructor has run on a default time that was given
DefaultRead == pc \in {"constructed", "failed"} /\ shortcut # <<>>

\* C20: the default time is validated at construction.  A default time that
\* is not 1 to 3 numeric components with ':' between them fails with the
\* invalid-default-time-format error; one that is fails with the
\* invalid-default-time-value error unless its hour is in 0..23 and its
\* minute and second are in 0..59; an accepted one is stored with 0 for the
\* minute and the second that were not typed.  '99:00' is a value error,
\* 'not-a-time' a format error.
C20_DefaultTimeValidated ==
  DefaultRead =>
    IF ~WellFormedDefault
      THEN pc = "failed" /\ thrown = Error("InvalidDefaultTimeFormat", shortcut)
    ELSE IF ~DefaultInRange
      THEN pc = "failed" /\ thrown = Error("InvalidDefaultTimeValue", shortcut)
    ELSE /\ pc = "constructed" /\ thrown = NoError
         /\ defaultTime = TimeInfo(TypedValue(1), TypedValue(2), TypedValue(3))

-----------------------------------------------------------------------------
(* Letter case (SpecCase).                                                 *)

\* what the English locale makes of the shortcut typed in small letters
InSmallLetters ==
  Parse(typed.text, LocaleEn, CreateUnitTypeMap(LocaleEn), fromDate, defaultTime)

\* C21: keyword matching is case-insensitive.  A shortcut with unit
\* keywords, today keywords and AM/PM markers that is accepted in small
\* letters on a locale listing its keywords in small letters returns the
\* same date typed in capitals or in mixed case, and on a locale that lists
\* the same keywords with capital letters.
C21_CaseInsensitive ==
  (pc = "parsed" /\ typed.kind = "cased" /\ InSmallLetters.kind = "date") =>
    result = InSmallLetters

-----------------------------------------------------------------------------
(* Whitespace (Spec).                                                      *)

\* the typed fields with single spaces between them and none elsewhere
CanonicalText(loc, ty) ==
  Join(Join(ty.head, TokensText(loc, ty.toks)) \o ty.dot, ty.time.text)

\* C22: whitespace is tolerated.  Tokens typed with spaces before and after
\* the shortcut, with no space, one or three between a token and what is
\* before it, and with or without a space between a sign and the rest of
\* its token, return what the same tokens return with single spaces, after
\* a today keyword or not, with a time or without; the result is a date.
\* ' 2m  -1d ' parses as '2m -1d', '+ 1d' as '+1d' and '05/20 + 2w.' as
\* '05/20 +2w.'.
C22_WhitespaceTolerated ==
  /\ (pc = "parsed" /\ typed.kind = "spaced") =>
       /\ result = ParseOf(CanonicalText(Locales[locale], typed))
       /\ result.kind = "date"
  /\ OtherTyped(<<" ", "2", "m", " ", " ", "-", "1", "d", " ">>) =>
       result = ParseOf(<<"2", "m", " ", "-", "1", "d">>)
  /\ OtherTyped(<<"+", " ", "1", "d">>) => result = ParseOf(<<"+", "1", "d">>)
  /\ OtherTyped(<<"0", "5", "/", "2", "0", " ", "+", " ", "2", "w", ".">>) =>
       result = ParseOf(<<"0", "5", "/", "2", "0", " ", "+", "2", "w", ".">>)

\* "  t 2m- 1d 17:30  " in en from 2024-05-15: 14 July 2024 at 17:30
C22_Witness ==
  /\ pc = "parsed" /\ locale = "en" /\ typed.kind = "spaced"
  /\ typed.pad = <<" ", " ">> /\ typed.gap = <<>> /\ typed.signGap = <<" ">>
  /\ shortcut = <<" ", " ", "t", " ", "2", "m", "-", " ", "1", "d", " ", "1", "7", ":", "3", "0",
                  " ", " ">>
  /\ fromDate = DateAt(2024, 5, 15, 36000000)
  /\ result = Returned(DateAt(2024, 7, 14, 63000000))

-----------------------------------------------------------------------------
(* The empty shortcut (Spec).                                              *)

\* the text is made of whitespace only, or of nothing
Blank(text) == \A i \in 1..Len(text) : text[i] \in {" ", "\t"}

EmptyShortcutThrown == result = Threw(Error("EmptyShortcut", <<>>))

\* C23: parse throws the empty-shortcut error exactly when the shortcut is
\* empty or whitespace only.  A blank shortcut gets that error and no other
\* outcome, on every locale, reference and default time; a shortcut with
\* any other character in it never gets it.
C23_EmptyShortcut ==
  pc = "parsed" => (EmptyShortcutThrown <=> Blank(shortcut))

\* "   " was passed and the empty-shortcut error thrown
C23_Witness ==
  /\ pc = "parsed" /\ shortcut = <<" ", " ", " ">>
  /\ defaultTime # NoTime
  /\ EmptyShortcutThrown

-----------------------------------------------------------------------------
(* The workday marker (Spec).                                              *)

\* the date is a Monday, Tuesday, Wednesday, Thursday or Friday
WorkdayOfCivil(c) == WeekdayOf(c.year, c.month, c.day) \in 1..5
OnWorkday(dt) == WorkdayOfCivil(Civil(dt))

\* the date part typed ends with the '.' marker
MarkerTyped ==
  \/ typed.kind \in {"relative", "absolute"} /\ typed.dot = <<".">>
  \/ typed.kind = "other" /\ typed.text # <<>> /\ typed.text[Len(typed.text)] = "."

\* what the same parser returns for the typed fields without the marker
WithoutMarker == ParseOf(TextOf(Locales[locale], [typed EXCEPT !.dot = <<>>]))

\* the result is the outcome `plain` moved off the weekend, if that is a date
MovedOffWeekend(plain) ==
  plain.kind = "date" =>
    /\ result = Returned(OffWeekend(plain.value))
    /\ OnWorkday(plain.value) => result = plain

\* C24: the workday adjustment comes after the relative adjustments and
\* before the time.  A successful parse of a shortcut whose date part ends
\* with '.' returns a Monday to Friday; it returns the date of the shortcut
\* without the marker moved off the weekend (Saturday to Friday, Sunday to
\* Monday), with the time of day of that date, and so the same result when
\* that date is a Monday to Friday already.
C24_WorkdayMarker ==
  (pc = "parsed" /\ MarkerTyped /\ result.kind = "date") =>
    /\ OnWorkday(result.value)
    /\ typed.kind # "other" => MovedOffWeekend(WithoutMarker)

\* "t+3d." from Wednesday 2024-05-15: Saturday 18 May becomes Friday 17 May
C24_Witness ==
  /\ pc = "parsed" /\ locale = "en"
  /\ shortcut = <<"t", "+", "3", "d", ".">>
  /\ fromDate = DateAt(2024, 5, 15, 36000000)
  /\ result.kind = "date" /\ result.value.day = DaysFromCivil(2024, 5, 17)

-----------------------------------------------------------------------------
(* A caller that keeps the Date object it passed as options.fromDate: it   *)
(* calls parse and writes to that object (SpecCaller).                     *)

\* new DateShortcutParser({locale, fromDate, defaultTime}): the constructor
\* stores the object passed as fromDate itself, so that this.options.fromDate
\* and the caller's Date are one object
InitCaller == InitCalls

\* the caller writes to the Date object it passed as fromDate (setTime,
\* setUTCFullYear and the like): this.options.fromDate is that object
WritePassed(value) ==
  /\ fromDate # value
  /\ fromDate' = value
  /\ pc' = "written"
  /\ UNCHANGED <<locale, defaultTime, unitTypeMap, shortcut, result, date, before, part, thrown,
                 typed, log, returned, constructedAt>>

NextCaller ==
  \/ \E str \in CallTexts : ParseAgain(str)
  \/ \E value \in WrittenDates : WritePassed(value)

SpecCaller == InitCaller /\ [][NextCaller]_vars

\* what parse returns or throws for the text on a parser whose reference
\* instant is the one its fromDate option held at construction
ParseAtConstruction(text) ==
  Parse(text, Locales[locale], unitTypeMap, constructedAt, defaultTime)

\* C25: the reference instant is fixed at construction.  Whatever the caller
\* writes to the Date object it passed as fromDate after the parser was
\* constructed, every parse call made so far returned or threw what the
\* shortcut resolves to relative to the instant that object held at
\* construction.
C25_ReferenceFixedAtConstruction ==
  \A i \in 1..Len(log) : log[i].outcome = ParseAtConstruction(log[i].shortcut)
-----------------------------------------------------------------------------
(* The ordinal of a weekday token (SpecParts).                             *)

\* the ordinal _findNthWeekday is called with: the magnitude typed, or 1
\* when none was typed
TypedOrdinal(tok) == IF tok.digits = <<>> THEN 1 ELSE TypedMagnitude(tok)

\* the number of Monday-to-Friday days of the month of the date
BusinessDayCount(dt) == Len(BusinessDays(Civil(dt).year, Civil(dt).month))

\* C26: a weekday token typed with magnitude 0, with or without a sign,
\* throws the weekday-not-found error that names 0 and leaves the date as it
\* was, in every month (each of which has 20 business days or more); a
\* weekday token throws nothing exactly when its ordinal is from 1 to the
\* number of business days of the month.
C26_WeekdayOrdinalRange ==
  (pc \in {"applied", "adjusted"} /\ typed.type = "weekday") =>
    /\ BusinessDayCount(before) >= 20
    /\ typed.digits = <<"0">> =>
         thrown = Error("WeekdayNotFound", <<"0">>) /\ date = before
    /\ thrown = NoError <=> TypedOrdinal(typed) \in 1..BusinessDayCount(before)

\* '-0wd' on 10 February 2025: the error names 0 and the date is untouched
C26_Witness ==
  /\ pc = "applied"
  /\ typed = Token(<<"-">>, <<"0">>, "weekday")
  /\ part = <<"-", "0", "w", "d">>
  /\ before = DateAt(2025, 2, 10, 0)
  /\ thrown = Error("WeekdayNotFound", <<"0">>)
  /\ date = before
-----------------------------------------------------------------------------
(* Absolute dates outside the calendar (Spec).                             *)

\* the typed date is one the first pattern of the locale matches whole
MatchesPattern(text, pat) == PatternMatch(text, pat).matched /\ PatternMatch(text, pat).length = Len(text)
DateForLocale(loc, td) == MatchesPattern(AbsText(loc, td), loc.datePatterns[1])

\* the day or the month typed is not one of the calendar
OutOfCalendar(td) ==
  IF ParseInt(td.month) \notin 1..12 THEN TRUE
  ELSE ParseInt(td.day) \notin 1..MonthLength(TypedYear(td), ParseInt(td.month))

\* the day that is d - 1 days after the first of the month that is m - 1
\* months after January of the year y, at midnight
RolledOver(y, m, d) ==
  [day |-> DaysFromCivil(y + (m - 1) \div 12, ((m - 1) % 12) + 1, 1) + d - 1, tod |-> 0]

\* C27: an absolute date typed with a month that is 0 or above 12, or a day
\* that is 0 or beyond the length of the month, does not fail.  Its base date
\* is the calendar rollover from the month and year stated (months beyond
\* December go on into the next year, month 0 is December of the year
\* before, days go on into the following months, day 0 is the last day of
\* the month before), which lies in another month or year than typed; the
\* tokens, the workday dot and the time typed after it are applied to that
\* base.
C27_OutOfRangeRollsOver ==
  (pc = "parsed" /\ typed.kind = "absolute" /\ DateForLocale(Locales[locale], typed.date)
     /\ OutOfCalendar(typed.date)) =>
    LET td     == typed.date
        base   == RolledOver(TypedYear(td), ParseInt(td.month), ParseInt(td.day))
        folded == FoldTokens(base, typed.toks)
        expect == IF typed.dot = <<>> THEN folded ELSE OffWeekend(folded)
    IN  /\ result = Returned([day |-> expect.day, tod |-> ExpectedMillis])
        /\ <<Civil(base).year, Civil(base).month>> # <<TypedYear(td), ParseInt(td.month)>>
-----------------------------------------------------------------------------
(* The order of the errors of parse (Spec).                                *)

\* what is thrown on the leftmost part that something is thrown on
RECURSIVE LeftmostError(_)
LeftmostError(parts) ==
  IF parts = <<>> THEN NoError
  ELSE IF Head(parts).bad THEN Head(parts).error
  ELSE LeftmostError(Tail(parts))

\* what is thrown on the time typed
TimeError(time, text) ==
  IF time.error.kind = "InvalidTimeFormat" THEN Error("InvalidTimeFormat", text)
  ELSE time.error

\* the error of the first stage that fails: the empty check, the time, then
\* the parts from left to right
FirstStageError(ty, text) ==
  IF text = <<>> THEN Error("EmptyShortcut", <<>>)
  ELSE IF ty.time.error # NoError THEN TimeError(ty.time, text)
  ELSE LeftmostError(ty.parts)

Outcome(error) == IF error = NoError THEN result.kind = "date" ELSE result = Threw(error)

\* C28: errors are reported in pipeline order.  Of a shortcut typed as a
\* today keyword or none, parts that are valid, invalid or unknown, and a
\* time that is none, valid or invalid, parse throws the empty-shortcut error
\* when nothing was typed; otherwise the error of the time when the time is
\* invalid, whatever the parts are; otherwise the error of the leftmost part
\* that is invalid or unknown, whatever is typed after it; and it returns a
\* date when none fails.  The reference instant of the parser is what it was
\* at construction after the call: the parts before the failing one were
\* applied to the copy of the call.
C28_FirstFailingStage ==
  (pc = "parsed" /\ typed.kind = "failing") =>
    /\ Outcome(FirstStageError(typed, shortcut))
    /\ fromDate = constructedAt

\* 't 1d garbage d1 25:00' in en: the valid '1d', the unknown 'garbage' and
\* the invalid 'd1' are typed before the time, and the hour of the time is
\* what is reported
C28_Witness ==
  /\ pc = "parsed" /\ locale = "en" /\ typed.kind = "failing"
  /\ typed.parts = <<OneDay, UnknownWord, LetterFirst>>
  /\ shortcut = <<"t", " ", "1", "d", " ", "g", "a", "r", "b", "a", "g", "e", " ", "d", "1",
                  " ", "2", "5", ":", "0", "0">>
  /\ result = Threw(Error("InvalidHour", <<"2", "5">>))
====
